---------------------------- MODULE Spec2Model ----------------------------
(***************************************************************************)
(* Reconciliation handlers for AWS load balancers, listeners and listener  *)
(* rules (davidgalchis/alb): src/load_balancer, src/listener, src/rule.    *)
(*                                                                         *)
(* One deployment of one handler is modelled: the caller invokes           *)
(* lambda_handler, the handler walks its fixed sequence of @ext-wrapped     *)
(* operations, eh.finish() builds the result, and on a retry request the   *)
(* caller invokes again with the returned ledger as pass_back_data.        *)
(*                                                                         *)
(* Python values are encoded as strings: None is the value None below, an  *)
(* int n is "i<n>", a bool is "bTrue"/"bFalse", a str is itself.  Dicts are  *)
(* functions over their keys; a list compared only as a whole is one       *)
(* opaque string.                                                          *)
(***************************************************************************)
EXTENDS Integers, Sequences, FiniteSets, TLC

VARIABLES handler, event, eh, remote, calls, pc, result, attempt, remote0

vars == <<handler, event, eh, remote, calls, pc, result, attempt, remote0>>

-----------------------------------------------------------------------------
(* Python values                                                           *)

None == "<None>"

\* (int encoding, its decimal text): what str() and int() map between
IntRepr == {<<"i0", "0">>, <<"i1", "1">>, <<"i2", "2">>, <<"i3", "3">>, <<"i5", "5">>, <<"i7", "7">>, <<"i60", "60">>, <<"i120", "120">>, <<"i80", "80">>, <<"i443", "443">>, <<"i8443", "8443">>}

IsInt(v) == \E p \in IntRepr : p[1] = v

IsIntText(v) == \E p \in IntRepr : p[2] = v

\* bool(v): None, 0, False and "" are falsy
Truthy(v) == v \notin {None, "i0", "bFalse", ""}

\* str(v), which is also f"{v}"
ToStr(v) ==
  IF v = None THEN "None"
  ELSE IF v = "bTrue" THEN "True"
  ELSE IF v = "bFalse" THEN "False"
  ELSE IF IsInt(v) THEN (CHOOSE p \in IntRepr : p[1] = v)[2]
  ELSE v

\* int(v) for the values it accepts (an int, True/False, or decimal text)
ToInt(v) ==
  IF IsInt(v) THEN v
  ELSE IF v = "bTrue" THEN "i1"
  ELSE IF v = "bFalse" THEN "i0"
  ELSE (CHOOSE p \in IntRepr : p[2] = v)[1]

\* str.lower() on the texts the handlers lower
Lower(v) == IF v = "True" THEN "true" ELSE IF v = "False" THEN "false" ELSE v

\* a or b
Or(a, b) == IF Truthy(a) THEN a ELSE b

-----------------------------------------------------------------------------
(* dicts                                                                   *)

EmptyDict == <<>>

Has(d, k) == k \in DOMAIN d

\* d.get(k)
Get(d, k) == IF k \in DOMAIN d THEN d[k] ELSE None

\* d[k] = v
Put(d, k, v) == [x \in DOMAIN d \cup {k} |-> IF x = k THEN v ELSE d[x]]

\* d.update(u)
Merge(d, u) == [x \in DOMAIN d \cup DOMAIN u |-> IF x \in DOMAIN u THEN u[x] ELSE d[x]]

\* d.pop(k)
Drop(d, k) == [x \in DOMAIN d \ {k} |-> d[x]]

-----------------------------------------------------------------------------
(* ExtensionHandler (extutil), as the handlers' docstring describes it      *)

NoReturn == [declared |-> FALSE, kind |-> "none", progress |-> 0, callback_sec |-> 0, error |-> None]

\* eh.refresh(): the handler object at the start of a deployment
FreshEh == [ops |-> EmptyDict, state |-> EmptyDict, props |-> EmptyDict, links |-> EmptyDict, retries |-> EmptyDict, ret |-> NoReturn, logs |-> <<>>]

add_op(W, k, v) == [W EXCEPT !.eh.ops = Put(@, k, v)]

add_state(W, d) == [W EXCEPT !.eh.state = Merge(@, d)]

add_props(W, d) == [W EXCEPT !.eh.props = Merge(@, d)]

add_links(W, d) == [W EXCEPT !.eh.links = Merge(@, d)]

add_log(W, title, is_error) == [W EXCEPT !.eh.logs = Append(@, [title |-> title, is_error |-> is_error])]

perm_error(W, error, progress) == [W EXCEPT !.eh.ret = [declared |-> TRUE, kind |-> "perm", progress |-> progress, callback_sec |-> 0, error |-> error]]

\* variant: the progress of a retry request grows with the invocation count
retry_error_progress_grows(W, error, progress, callback_sec) == [W EXCEPT !.eh.ret = [declared |-> TRUE, kind |-> "retry", progress |-> progress + W.attempt, callback_sec |-> callback_sec, error |-> error]]

retry_error(W, error, progress, callback_sec) == [W EXCEPT !.eh.ret = [declared |-> TRUE, kind |-> "retry", progress |-> progress, callback_sec |-> callback_sec, error |-> error]]

\* eh.declare_return(200, progress, error_code=...) as the except block calls it
declare_return(W, error, progress) == [W EXCEPT !.eh.ret = [declared |-> TRUE, kind |-> "failure", progress |-> progress, callback_sec |-> 0, error |-> error]]

\* a Python exception escaping the operation
raise(W, what) == [W EXCEPT !.exc = what]

\* variant: a queued operation runs whether or not a return is already declared
ext_runs_after_return(W, op) == Has(W.eh.ops, op)

\* @ext: the wrapped function runs only if its operation is queued and no return is declared
ext_runs(W, op) == ~W.eh.ret.declared /\ Has(W.eh.ops, op)

\* variant: an operation that ran stays in the queue
ext_done_keeps_op(R, op) == R

\* @ext: an operation that returns without declaring a return leaves the queue
ext_done(R, op) == IF R.exc = None /\ ~R.eh.ret.declared THEN [R EXCEPT !.eh.ops = Drop(@, op)] ELSE R

\* extutil.handle_common_errors: an unclassified provider error is logged and retried
handle_common_errors(W, e, msg, progress) == retry_error(add_log(W, msg, TRUE), e, progress, 0)

\* the provider call log: which API, on behalf of which operation, with what answer
call(W, op, api, arg, res, injected) == [W EXCEPT !.calls = Append(@, [op |-> op, api |-> api, arg |-> arg, res |-> res, injected |-> injected, attempt |-> W.attempt])]

region == "us-east-1"

-----------------------------------------------------------------------------
(* tags: the normalizer's list of Key/Value pairs and the diff against the  *)
(* provider's current tags (the same code in all three handlers)           *)

\* [{"Key": f"{key}", "Value": f"{value}"} for key, value in tags.items()] if tags else None
expand_dict_to_key_value_list_obj(tags) == {[Key |-> ToStr(k), Value |-> ToStr(tags[k])] : k \in DOMAIN tags}

\* {item.get("Key"): item.get("Value") for item in tags}
key_value_list_obj_to_compressed_dict(list_obj) == [k \in {i.Key : i \in list_obj} |-> (CHOOSE i \in list_obj : i.Key = k).Value]

\* remove_tags = [k for k in current_tags.keys() if k not in formatted_tags]
tag_remove_keys(current_tags, formatted_tags) == {k \in DOMAIN current_tags : k \notin DOMAIN formatted_tags}

\* variant: only keys the resource does not carry yet are set, a changed value is left
tag_add_pairs_new_keys_only(current_tags, formatted_tags) == [k \in {x \in DOMAIN formatted_tags : x \notin DOMAIN current_tags} |-> formatted_tags[k]]

\* add_tags = {k:v for k,v in formatted_tags.items() if v != current_tags.get(k)}
tag_add_pairs(current_tags, formatted_tags) == [k \in {x \in DOMAIN formatted_tags : formatted_tags[x] # Get(current_tags, x)} |-> formatted_tags[k]]

\* the "if attributes.get('Tags') ... else ..." block that follows describe_tags
tag_sync_ops(W, attributes, current_tags) ==
  IF Has(attributes, "Tags")
  THEN LET formatted_tags == key_value_list_obj_to_compressed_dict(attributes.Tags)
           remove_tags == tag_remove_keys(current_tags, formatted_tags)
           add_tags == tag_add_pairs(current_tags, formatted_tags)
           W1 == IF remove_tags # {} THEN add_op(W, "remove_tags", remove_tags) ELSE W
       IN  IF formatted_tags # current_tags
           THEN IF DOMAIN add_tags # {} THEN add_op(W1, "set_tags", add_tags) ELSE W1
           ELSE W
  ELSE IF DOMAIN current_tags # {} THEN add_op(W, "remove_tags", DOMAIN current_tags) ELSE W

\* extutil.remove_none_attributes on a dict of scalar values
remove_none_attributes(d) == [k \in {x \in DOMAIN d : d[x] # None} |-> d[k]]

\* what a provider call answers: an injected error, or the answer the remote state gives
Injected(f) == f \in {"transient", "gone", "invalid", "in_use", "not_permitted", "priority_in_use"}

-----------------------------------------------------------------------------
(* listener handler: src/listener/lambda_function.py                       *)

DefaultSslPolicy == "ELBSecurityPolicy-TLS13-1-2-2021-06"

AbsentListener == [exists |-> FALSE, ListenerArn |-> None, LoadBalancerArn |-> None, Port |-> None, Protocol |-> None, SslPolicy |-> None, CertificateArn |-> None, Type |-> None, TargetGroupArn |-> None, Tags |-> EmptyDict]

\* variant: an undeclared SSL policy is left out instead of defaulted
listener_attributes_without_default_policy(cdef) ==
  LET load_balancer_arn == cdef.load_balancer_arn
      protocol == Or(cdef.protocol, "HTTPS")
      port == Or(cdef.port, "i443")
      ssl_policy == cdef.ssl_policy
      certificate_arn == cdef.certificate_arn
      action_type == Or(cdef.action_type, "forward")
      target_group_arn == cdef.target_group_arn
      tags == cdef.tags
      scalars == remove_none_attributes([
          LoadBalancerArn |-> IF Truthy(load_balancer_arn) THEN ToStr(load_balancer_arn) ELSE load_balancer_arn,
          Protocol |-> IF Truthy(protocol) THEN ToStr(protocol) ELSE protocol,
          Port |-> IF Truthy(port) THEN ToInt(port) ELSE port,
          SslPolicy |-> IF Truthy(ssl_policy) THEN ToStr(ssl_policy) ELSE ssl_policy])
      certs == IF Truthy(certificate_arn) THEN [Certificates |-> <<[CertificateArn |-> certificate_arn]>>] ELSE EmptyDict
      actions == [DefaultActions |-> <<[
          Type |-> IF Truthy(action_type) THEN ToStr(action_type) ELSE action_type,
          TargetGroupArn |-> IF Truthy(target_group_arn) THEN ToStr(target_group_arn) ELSE target_group_arn]>>]
      tagsd == IF DOMAIN tags # {} THEN [Tags |-> expand_dict_to_key_value_list_obj(tags)] ELSE EmptyDict
  IN  Merge(Merge(Merge(scalars, certs), actions), tagsd)

\* the attributes dict lambda_handler builds from component_def
listener_attributes(cdef) ==
  LET load_balancer_arn == cdef.load_balancer_arn
      protocol == Or(cdef.protocol, "HTTPS")
      port == Or(cdef.port, "i443")
      ssl_policy == Or(cdef.ssl_policy, DefaultSslPolicy)
      certificate_arn == cdef.certificate_arn
      action_type == Or(cdef.action_type, "forward")
      target_group_arn == cdef.target_group_arn
      tags == cdef.tags
      scalars == remove_none_attributes([
          LoadBalancerArn |-> IF Truthy(load_balancer_arn) THEN ToStr(load_balancer_arn) ELSE load_balancer_arn,
          Protocol |-> IF Truthy(protocol) THEN ToStr(protocol) ELSE protocol,
          Port |-> IF Truthy(port) THEN ToInt(port) ELSE port,
          SslPolicy |-> IF Truthy(ssl_policy) THEN ToStr(ssl_policy) ELSE ssl_policy])
      certs == IF Truthy(certificate_arn) THEN [Certificates |-> <<[CertificateArn |-> certificate_arn]>>] ELSE EmptyDict
      actions == [DefaultActions |-> <<[
          Type |-> IF Truthy(action_type) THEN ToStr(action_type) ELSE action_type,
          TargetGroupArn |-> IF Truthy(target_group_arn) THEN ToStr(target_group_arn) ELSE target_group_arn]>>]
      tagsd == IF DOMAIN tags # {} THEN [Tags |-> expand_dict_to_key_value_list_obj(tags)] ELSE EmptyDict
  IN  Merge(Merge(Merge(scalars, certs), actions), tagsd)

\* the props dict built from a listener the provider returned
listener_props(listener) == [
  arn |-> listener.ListenerArn,
  load_balancer_arn |-> listener.LoadBalancerArn,
  port |-> listener.Port,
  protocol |-> listener.Protocol,
  action_type |-> listener.Type,
  target_group_arn |-> listener.TargetGroupArn,
  ssl_policy |-> listener.SslPolicy,
  certificate_arn |-> listener.CertificateArn]

gen_listener_link(rgn, load_balancer_arn, port) == <<"ELBListenerV2", rgn, load_balancer_arn, ToStr(port)>>

\* current_attributes: the live listener re-derived into the shape of attributes
listener_current_attributes(existing_props) ==
  LET p == remove_none_attributes(existing_props)
      scalars == remove_none_attributes([
          LoadBalancerArn |-> IF Truthy(Get(p, "load_balancer_arn")) THEN ToStr(Get(p, "load_balancer_arn")) ELSE Get(p, "load_balancer_arn"),
          Protocol |-> IF Truthy(Get(p, "protocol")) THEN ToStr(Get(p, "protocol")) ELSE ToStr(Get(p, "protocol")),
          Port |-> IF Truthy(Get(p, "port")) THEN ToInt(Get(p, "port")) ELSE Get(p, "port"),
          SslPolicy |-> IF Truthy(Get(p, "ssl_policy")) THEN ToStr(Get(p, "ssl_policy")) ELSE ToStr(Get(p, "ssl_policy"))])
      certs == IF Truthy(Get(p, "certificate_arn")) THEN [Certificates |-> <<[CertificateArn |-> Get(p, "certificate_arn")]>>] ELSE EmptyDict
      actions == [DefaultActions |-> <<[
          Type |-> IF Truthy(Get(p, "action_type")) THEN ToStr(Get(p, "action_type")) ELSE Get(p, "action_type"),
          TargetGroupArn |-> IF Truthy(Get(p, "target_group_arn")) THEN ToStr(Get(p, "target_group_arn")) ELSE Get(p, "target_group_arn")]>>]
  IN  Merge(Merge(scalars, certs), actions)

\* comparable_attributes != current_attributes
listener_needs_update(attributes, existing_props) == Drop(attributes, "Tags") # listener_current_attributes(existing_props)

\* variant: only the load balancer ARN is compared, a changed port passes
listener_non_editable_arn_only(old_load_balancer_arn, old_port, load_balancer_arn, port) ==
  Truthy(old_load_balancer_arn) /\ old_load_balancer_arn # load_balancer_arn

\* the non-editable test of lambda_handler: old values come from prev_state["props"]
listener_non_editable(old_load_balancer_arn, old_port, load_balancer_arn, port) ==
  \/ (Truthy(old_load_balancer_arn) /\ old_load_balancer_arn # load_balancer_arn)
  \/ (Truthy(old_port) /\ old_port # port)

ListenerNonEditableMessage == "You may not edit the Load Balancer ARN or the port of an existing listener. Please create a new component to get the desired configuration."

\* "if pass_back_data:", which only a retry carries
HasPassBack(E) == DOMAIN E.pass_back_data # {}

\* prev_state.get("props", {})
prev_props(prev_state) == IF Has(prev_state, "props") THEN prev_state.props ELSE EmptyDict

\* variant: the starting point is declared on a retry as well
listener_lambda_handler_restarts(W, E) ==
  LET cdef == E.component_def
      prev_state == E.prev_state
      props == prev_props(prev_state)
      load_balancer_arn == cdef.load_balancer_arn
      port == Or(cdef.port, "i443")
      old_load_balancer_arn == IF Has(props, "load_balancer_arn") THEN props.load_balancer_arn ELSE None
      old_port == IF Has(props, "load_balancer_arn") /\ Has(props, "port") THEN props.port ELSE None
      W1 == add_op(W, "get_listener", "True")
  IN  IF E.op = "upsert"
      THEN IF listener_non_editable(old_load_balancer_arn, old_port, load_balancer_arn, port)
           THEN perm_error(add_log(W1, "Cannot edit non-editable field", TRUE), ListenerNonEditableMessage, 10)
           ELSE W1
      ELSE IF E.op = "delete"
      THEN IF Has(props, "arn")
           THEN add_state(add_op(W, "delete_listener", "True"), [listener_arn |-> props.arn])
           ELSE raise(add_op(W, "delete_listener", "True"), "KeyError")
      ELSE W

\* lambda_handler up to the first operation: the starting point of the invocation
listener_lambda_handler(W, E) ==
  LET cdef == E.component_def
      prev_state == E.prev_state
      props == prev_props(prev_state)
      load_balancer_arn == cdef.load_balancer_arn
      port == Or(cdef.port, "i443")
      old_load_balancer_arn == IF Has(props, "load_balancer_arn") THEN props.load_balancer_arn ELSE None
      old_port == IF Has(props, "load_balancer_arn") /\ Has(props, "port") THEN props.port ELSE None
      W1 == add_op(W, "get_listener", "True")
  IN  IF HasPassBack(E) THEN W
      ELSE IF E.op = "upsert"
      THEN IF listener_non_editable(old_load_balancer_arn, old_port, load_balancer_arn, port)
           THEN perm_error(add_log(W1, "Cannot edit non-editable field", TRUE), ListenerNonEditableMessage, 10)
           ELSE W1
      ELSE IF E.op = "delete"
      THEN IF Has(props, "arn")
           THEN add_state(add_op(W, "delete_listener", "True"), [listener_arn |-> props.arn])
           ELSE raise(add_op(W, "delete_listener", "True"), "KeyError")
      ELSE W

\* the remote state a call sees: "gone" is another actor deleting the resource first
Seen(R, absent, f) == IF f = "gone" THEN absent ELSE R

\* client.describe_listeners(ListenerArns=[arn]): the answer and the remote state after it
elbv2_describe_listeners(R, arn, f) ==
  LET R1 == Seen(R, AbsentListener, f)
  IN  [remote |-> R1,
       res |-> IF f = "transient" THEN "ClientError"
               ELSE IF R1.exists /\ R1.ListenerArn = arn THEN "Found"
               ELSE IF f = "empty" THEN "Empty" ELSE "NotFound"]

\* client.describe_tags(ResourceArns=[arn]) for the one resource of the deployment
elbv2_describe_tags(R, absent, f) ==
  LET R1 == Seen(R, absent, f)
  IN  [remote |-> R1,
       res |-> IF f = "transient" THEN "ClientError" ELSE IF R1.exists THEN "Found" ELSE "NotFound",
       tags |-> R1.Tags]

NewListenerArn == "listener/new"

\* the listener the provider creates from the request
created_listener(attributes) == [
  exists |-> TRUE,
  ListenerArn |-> NewListenerArn,
  LoadBalancerArn |-> Get(attributes, "LoadBalancerArn"),
  Port |-> Get(attributes, "Port"),
  Protocol |-> Get(attributes, "Protocol"),
  SslPolicy |-> IF Get(attributes, "Protocol") \in {"HTTPS", "TLS"} THEN Get(attributes, "SslPolicy") ELSE None,
  CertificateArn |-> IF Has(attributes, "Certificates") THEN attributes.Certificates[1].CertificateArn ELSE None,
  Type |-> attributes.DefaultActions[1].Type,
  TargetGroupArn |-> attributes.DefaultActions[1].TargetGroupArn,
  Tags |-> IF Has(attributes, "Tags") THEN key_value_list_obj_to_compressed_dict(attributes.Tags) ELSE EmptyDict]

\* client.create_listener(**attributes)
elbv2_create_listener(R, attributes, f) ==
  IF f = "transient" THEN [remote |-> R, res |-> "ClientError"]
  ELSE IF f = "invalid" THEN [remote |-> R, res |-> "InvalidConfigurationRequest"]
  ELSE IF R.exists /\ R.LoadBalancerArn = Get(attributes, "LoadBalancerArn") /\ R.Port = Get(attributes, "Port")
  THEN [remote |-> R, res |-> "DuplicateListener"]
  ELSE [remote |-> created_listener(attributes), res |-> "Created"]

\* client.modify_listener(**modifiable_attributes)
elbv2_modify_listener(R, m, f) ==
  LET R1 == Seen(R, AbsentListener, f)
  IN  IF f = "transient" THEN [remote |-> R1, res |-> "ClientError"]
      ELSE IF f = "invalid" THEN [remote |-> R1, res |-> "InvalidConfigurationRequest"]
      ELSE IF ~(R1.exists /\ R1.ListenerArn = m.ListenerArn) THEN [remote |-> R1, res |-> "NotFound"]
      ELSE [res |-> "Modified",
            remote |-> [R1 EXCEPT
              !.Port = IF Has(m, "Port") THEN m.Port ELSE @,
              !.Protocol = IF Has(m, "Protocol") THEN m.Protocol ELSE @,
              !.SslPolicy = IF Get(m, "Protocol") \in {"HTTPS", "TLS"} THEN Get(m, "SslPolicy") ELSE None,
              !.CertificateArn = IF Has(m, "Certificates") THEN m.Certificates[1].CertificateArn ELSE @,
              !.Type = m.DefaultActions[1].Type,
              !.TargetGroupArn = m.DefaultActions[1].TargetGroupArn]]

\* client.remove_tags(ResourceArns=[arn], TagKeys=keys)
elbv2_remove_tags(R, absent, keys, f) ==
  LET R1 == Seen(R, absent, f)
  IN  IF f = "transient" THEN [remote |-> R1, res |-> "ClientError"]
      ELSE IF ~R1.exists THEN [remote |-> R1, res |-> "NotFound"]
      ELSE [remote |-> [R1 EXCEPT !.Tags = [k \in DOMAIN @ \ keys |-> @[k]]], res |-> "Removed"]

\* client.add_tags(ResourceArns=[arn], Tags=[...])
elbv2_add_tags(R, absent, tags, f) ==
  LET R1 == Seen(R, absent, f)
  IN  IF f = "transient" THEN [remote |-> R1, res |-> "ClientError"]
      ELSE IF f = "invalid" THEN [remote |-> R1, res |-> "TooManyTags"]
      ELSE IF ~R1.exists THEN [remote |-> R1, res |-> "NotFound"]
      ELSE [remote |-> [R1 EXCEPT !.Tags = Merge(@, tags)], res |-> "Added"]

\* client.delete_listener / delete_rule / delete_load_balancer
elbv2_delete(R, absent, f) ==
  LET R1 == Seen(R, absent, f)
  IN  IF f = "transient" THEN [remote |-> R1, res |-> "ClientError"]
      ELSE IF f = "in_use" THEN [remote |-> R1, res |-> "ResourceInUse"]
      ELSE IF f = "not_permitted" THEN [remote |-> R1, res |-> "OperationNotPermitted"]
      ELSE IF ~R1.exists THEN [remote |-> R1, res |-> "NotFound"]
      ELSE [remote |-> absent, res |-> "Deleted"]

\* a provider call made: the remote state moves and the call is logged
did(W, op, api, arg, a, f) == call([W EXCEPT !.remote = a.remote], op, api, arg, a.res, Injected(f))

\* the found branch of get_listener: props, links, update test, tag diff
get_listener_found(W, attributes, f) ==
  LET listener_to_use == W.remote
      listener_arn == listener_to_use.ListenerArn
      existing_props == listener_props(listener_to_use)
      W1 == add_log(W, "Got Listener Attributes", FALSE)
      W2 == add_state(W1, [listener_arn |-> listener_arn, region |-> region])
      W3 == add_props(W2, existing_props)
      W4 == add_links(W3, [Listener |-> gen_listener_link(region, listener_to_use.LoadBalancerArn, listener_to_use.Port)])
      W5 == IF listener_needs_update(attributes, existing_props) THEN add_op(W4, "update_listener", "True") ELSE W4
      t == elbv2_describe_tags(W5.remote, AbsentListener, f.b)
      W6 == did(W5, "get_listener", "describe_tags", listener_arn, t, f.b)
  IN  IF t.res = "ClientError" THEN retry_error(add_log(W6, "Get Listener Error", TRUE), "Get Listener Error", 10, 0)
      ELSE IF t.res = "NotFound" THEN add_log(W6, "Listener Not Found", FALSE)
      ELSE tag_sync_ops(add_log(W6, "Got Tags", FALSE), attributes, t.tags)

\* variant: a failed lookup is taken for a missing listener
get_listener_body_error_as_missing(W, E, f) ==
  LET attributes == listener_attributes(E.component_def)
      existing_listener_arn == Get(prev_props(E.prev_state), "arn")
      d == elbv2_describe_listeners(W.remote, existing_listener_arn, f.a)
      W1 == did(W, "get_listener", "describe_listeners", existing_listener_arn, d, f.a)
  IN  IF Truthy(existing_listener_arn)
      THEN IF d.res = "Found" THEN get_listener_found(W1, attributes, f)
           ELSE add_op(add_log(W1, "Listener Does Not Exist", FALSE), "create_listener", "True")
      ELSE add_op(add_log(W, "Listener Does Not Exist", FALSE), "create_listener", "True")

\* get_listener, the function under @ext
get_listener_body(W, E, f) ==
  LET attributes == listener_attributes(E.component_def)
      existing_listener_arn == Get(prev_props(E.prev_state), "arn")
      d == elbv2_describe_listeners(W.remote, existing_listener_arn, f.a)
      W1 == did(W, "get_listener", "describe_listeners", existing_listener_arn, d, f.a)
  IN  IF Truthy(existing_listener_arn)
      THEN IF d.res = "Found" THEN get_listener_found(W1, attributes, f)
           ELSE IF d.res = "ClientError" THEN retry_error(add_log(W1, "Get Listener Error", TRUE), "Get Listener Error", 10, 0)
           ELSE add_op(add_log(W1, "Listener Does Not Exist", FALSE), "create_listener", "True")
      ELSE add_op(add_log(W, "Listener Does Not Exist", FALSE), "create_listener", "True")

get_listener(W, E, f) == IF ext_runs(W, "get_listener") THEN ext_done(get_listener_body(W, E, f), "get_listener") ELSE W

\* create_listener, the function under @ext
create_listener_body(W, E, f) ==
  LET attributes == listener_attributes(E.component_def)
      c == elbv2_create_listener(W.remote, attributes, f.a)
      W1 == did(W, "create_listener", "create_listener", attributes, c, f.a)
      listener == c.remote
      W2 == add_log(W1, "Created Listener", FALSE)
      W3 == add_state(W2, [listener_arn |-> listener.ListenerArn, region |-> region])
      W4 == add_props(W3, listener_props(listener))
      W5 == add_links(W4, [Listener |-> gen_listener_link(region, listener.LoadBalancerArn, listener.Port)])
      t == elbv2_describe_tags(W5.remote, AbsentListener, f.b)
      W6 == did(W5, "create_listener", "describe_tags", listener.ListenerArn, t, f.b)
  IN  IF c.res = "Created"
      THEN IF t.res = "ClientError" THEN handle_common_errors(W6, "ClientError", "Error Creating Listener", 20)
           ELSE IF t.res = "NotFound" THEN add_log(W6, "Listener Not Found", FALSE)
           ELSE tag_sync_ops(add_log(W6, "Got Tags", FALSE), attributes, t.tags)
      ELSE IF c.res = "DuplicateListener" THEN perm_error(add_log(W1, "Listener already exists", TRUE), c.res, 20)
      ELSE IF c.res = "InvalidConfigurationRequest" THEN perm_error(add_log(W1, "Invalid Listener Parameters", TRUE), c.res, 20)
      ELSE handle_common_errors(W1, c.res, "Error Creating Listener", 20)

create_listener(W, E, f) == IF ext_runs(W, "create_listener") THEN ext_done(create_listener_body(W, E, f), "create_listener") ELSE W

\* update_listener, the function under @ext
update_listener_body(W, E, f) ==
  LET attributes == listener_attributes(E.component_def)
      modifiable_attributes == Put(Drop(Drop(attributes, "Tags"), "LoadBalancerArn"), "ListenerArn", W.eh.state.listener_arn)
      m == elbv2_modify_listener(W.remote, modifiable_attributes, f.a)
      W1 == did(W, "update_listener", "modify_listener", modifiable_attributes, m, f.a)
      listener == m.remote
      W2 == add_props(add_log(W1, "Updated Listener", FALSE), listener_props(listener))
  IN  IF ~Has(W.eh.state, "listener_arn") THEN raise(W, "KeyError")
      ELSE IF m.res = "Modified" THEN add_links(W2, [Listener |-> gen_listener_link(region, listener.LoadBalancerArn, listener.Port)])
      ELSE IF m.res = "NotFound" THEN perm_error(add_log(W1, "Listener Does Not Exist", TRUE), m.res, 20)
      ELSE IF m.res = "InvalidConfigurationRequest" THEN perm_error(add_log(W1, "Invalid Listener Parameters", TRUE), m.res, 20)
      ELSE handle_common_errors(W1, m.res, "Error Creating Listener", 20)

update_listener(W, E, f) == IF ext_runs(W, "update_listener") THEN ext_done(update_listener_body(W, E, f), "update_listener") ELSE W

\* remove_tags of the listener handler
listener_remove_tags_body(W, E, f) ==
  LET remove_tags == Get(W.eh.ops, "remove_tags")
      listener_arn == W.eh.state.listener_arn
      r == elbv2_remove_tags(W.remote, AbsentListener, remove_tags, f.a)
      W1 == did(W, "remove_tags", "remove_tags", remove_tags, r, f.a)
  IN  IF ~Has(W.eh.state, "listener_arn") THEN raise(W, "KeyError")
      ELSE IF r.res = "Removed" THEN add_log(W1, "Removed Tags", FALSE)
      ELSE IF r.res = "NotFound" THEN add_log(W1, "Listener Not Found", FALSE)
      ELSE handle_common_errors(W1, r.res, "Error Removing Listener Tags", 90)

listener_remove_tags(W, E, f) == IF ext_runs(W, "remove_tags") THEN ext_done(listener_remove_tags_body(W, E, f), "remove_tags") ELSE W

\* variant: a listener that is not found is logged and passed over when tags are added
listener_set_tags_body_not_found_ignored(W, E, f) ==
  LET tags == Get(W.eh.ops, "set_tags")
      listener_arn == W.eh.state.listener_arn
      r == elbv2_add_tags(W.remote, AbsentListener, tags, f.a)
      W1 == did(W, "set_tags", "add_tags", tags, r, f.a)
  IN  IF ~Has(W.eh.state, "listener_arn") THEN raise(W, "KeyError")
      ELSE IF r.res = "Added" THEN add_log(W1, "Tags Added", FALSE)
      ELSE IF r.res = "NotFound" THEN add_log(W1, "Listener Not Found", FALSE)
      ELSE IF r.res = "TooManyTags" THEN perm_error(add_log(W1, "Too Many Tags on Listener. You may have 50 tags per resource.", TRUE), r.res, 90)
      ELSE handle_common_errors(W1, r.res, "Error Adding Tags", 90)

\* set_tags of the listener handler
listener_set_tags_body(W, E, f) ==
  LET tags == Get(W.eh.ops, "set_tags")
      listener_arn == W.eh.state.listener_arn
      r == elbv2_add_tags(W.remote, AbsentListener, tags, f.a)
      W1 == did(W, "set_tags", "add_tags", tags, r, f.a)
  IN  IF ~Has(W.eh.state, "listener_arn") THEN raise(W, "KeyError")
      ELSE IF r.res = "Added" THEN add_log(W1, "Tags Added", FALSE)
      ELSE IF r.res = "NotFound" THEN perm_error(add_log(W1, "Listener Not Found", TRUE), r.res, 90)
      ELSE IF r.res = "TooManyTags" THEN perm_error(add_log(W1, "Too Many Tags on Listener. You may have 50 tags per resource.", TRUE), r.res, 90)
      ELSE handle_common_errors(W1, r.res, "Error Adding Tags", 90)

listener_set_tags(W, E, f) == IF ext_runs(W, "set_tags") THEN ext_done(listener_set_tags_body(W, E, f), "set_tags") ELSE W

\* variant: a listener in use fails the delete for good
delete_listener_body_in_use_permanent(W, E, f) ==
  LET listener_arn == W.eh.state.listener_arn
      r == elbv2_delete(W.remote, AbsentListener, f.a)
      W1 == did(W, "delete_listener", "delete_listener", listener_arn, r, f.a)
  IN  IF ~Has(W.eh.state, "listener_arn") THEN raise(W, "KeyError")
      ELSE IF r.res = "Deleted" THEN add_log(W1, "Listener Deleted", FALSE)
      ELSE IF r.res = "ResourceInUse" THEN perm_error(add_log(W1, "Error Deleting Listener. Resource in Use.", TRUE), r.res, 80)
      ELSE IF r.res = "NotFound" THEN add_log(W1, "Old Listener Doesn't Exist", FALSE)
      ELSE handle_common_errors(W1, r.res, "Error Deleting Listener", 80)

\* delete_listener, the function under @ext
delete_listener_body(W, E, f) ==
  LET listener_arn == W.eh.state.listener_arn
      r == elbv2_delete(W.remote, AbsentListener, f.a)
      W1 == did(W, "delete_listener", "delete_listener", listener_arn, r, f.a)
  IN  IF ~Has(W.eh.state, "listener_arn") THEN raise(W, "KeyError")
      ELSE IF r.res = "Deleted" THEN add_log(W1, "Listener Deleted", FALSE)
      ELSE IF r.res = "ResourceInUse" THEN handle_common_errors(W1, r.res, "Error Deleting Listener. Resource in Use.", 80)
      ELSE IF r.res = "NotFound" THEN add_log(W1, "Old Listener Doesn't Exist", FALSE)
      ELSE handle_common_errors(W1, r.res, "Error Deleting Listener", 80)

\* variant: delete_listener declared without the @ext guard
delete_listener_unguarded(W, E, f) == ext_done(delete_listener_body(W, E, f), "delete_listener")

delete_listener(W, E, f) == IF ext_runs(W, "delete_listener") THEN ext_done(delete_listener_body(W, E, f), "delete_listener") ELSE W

-----------------------------------------------------------------------------
(* load balancer handler: src/load_balancer/lambda_function.py             *)
(* Five of the fifteen special attributes are carried, one for each way   *)
(* the normalizer treats a key: lowered bool with default "false", lowered *)
(* bool with default "true", text without a default, the ipv6 key that an  *)
(* ipv4 load balancer hides, and a number kept as text.                    *)

SpecialKeys == {"deletion_protection.enabled", "load_balancing.cross_zone.enabled", "access_logs.s3.bucket", "ipv6.deny_all_igw_traffic", "idle_timeout.timeout_seconds"}

\* component_safe_name(project_code, repo_id, cname, ...)
component_safe_name == "generated-name"

\* name = eh.props.get("name") or cdef.get("name") or component_safe_name(...)
load_balancer_name(W, E) == Or(Or(Get(W.eh.props, "name"), E.component_def.name), component_safe_name)

\* special_attributes: the declared special attributes in the provider's keys
special_attributes(cdef) ==
  LET deletion_protection_enabled == cdef.deletion_protection_enabled
      load_balancing_cross_zone_enabled == cdef.load_balancing_cross_zone_enabled
      access_logs_s3_bucket == cdef.access_logs_s3_bucket
      ipv6_deny_all_igw_traffic == cdef.ipv6_deny_all_igw_traffic
      idle_timeout_timeout_seconds == cdef.idle_timeout_timeout_seconds
  IN  remove_none_attributes(
        ("deletion_protection.enabled" :> (IF Truthy(deletion_protection_enabled) THEN Lower(ToStr(deletion_protection_enabled)) ELSE deletion_protection_enabled))
        @@ ("load_balancing.cross_zone.enabled" :> (IF Truthy(load_balancing_cross_zone_enabled) THEN Lower(ToStr(load_balancing_cross_zone_enabled)) ELSE load_balancing_cross_zone_enabled))
        @@ ("access_logs.s3.bucket" :> (IF Truthy(access_logs_s3_bucket) THEN ToStr(access_logs_s3_bucket) ELSE access_logs_s3_bucket))
        @@ ("ipv6.deny_all_igw_traffic" :> (IF Truthy(ipv6_deny_all_igw_traffic) THEN ToStr(ipv6_deny_all_igw_traffic) ELSE ipv6_deny_all_igw_traffic))
        @@ ("idle_timeout.timeout_seconds" :> (IF Truthy(idle_timeout_timeout_seconds) THEN ToStr(idle_timeout_timeout_seconds) ELSE idle_timeout_timeout_seconds)))

default_special_attributes ==
  remove_none_attributes(
    ("deletion_protection.enabled" :> "false")
    @@ ("load_balancing.cross_zone.enabled" :> "true")
    @@ ("access_logs.s3.bucket" :> None)
    @@ ("ipv6.deny_all_igw_traffic" :> "false")
    @@ ("idle_timeout.timeout_seconds" :> "60"))

\* the attributes dict lambda_handler builds from component_def
load_balancer_attributes(name, cdef) ==
  LET subnets == cdef.subnets
      security_groups == cdef.security_groups
      scheme == Or(cdef.scheme, "internal")
      tags == cdef.tags
      load_balancer_type == Or(cdef.load_balancer_type, "application")
      ip_address_type == Or(cdef.ip_address_type, "ipv4")
      scalars == remove_none_attributes([Name |-> name, Subnets |-> subnets, SecurityGroups |-> security_groups, Scheme |-> scheme, Type |-> load_balancer_type, IpAddressType |-> ip_address_type])
      tagsd == IF DOMAIN tags # {} THEN [Tags |-> expand_dict_to_key_value_list_obj(tags)] ELSE EmptyDict
  IN  Merge(scalars, tagsd)

\* variant: the scheme is not compared
load_balancer_non_editable_no_scheme(old_name, old_scheme, old_load_balancer_type, name, scheme, load_balancer_type) ==
  \/ (Truthy(old_name) /\ old_name # name)
  \/ (Truthy(old_load_balancer_type) /\ old_load_balancer_type # load_balancer_type)

\* the non-editable test of lambda_handler: old values come from prev_state["props"]
load_balancer_non_editable(old_name, old_scheme, old_load_balancer_type, name, scheme, load_balancer_type) ==
  \/ (Truthy(old_name) /\ old_name # name)
  \/ (Truthy(old_scheme) /\ old_scheme # scheme)
  \/ (Truthy(old_load_balancer_type) /\ old_load_balancer_type # load_balancer_type)

LoadBalancerNonEditableMessage == "You may not edit the name, scheme, or load balancer type of an existing load balancer. Please create a new component to get the desired configuration."

\* lambda_handler up to the first operation: the starting point of the invocation
load_balancer_lambda_handler(W, E) ==
  LET cdef == E.component_def
      props == prev_props(E.prev_state)
      name == load_balancer_name(W, E)
      scheme == Or(cdef.scheme, "internal")
      load_balancer_type == Or(cdef.load_balancer_type, "application")
      old_name == IF Has(props, "name") THEN props.name ELSE None
      old_scheme == IF Has(props, "name") /\ Has(props, "scheme") THEN props.scheme ELSE None
      old_load_balancer_type == IF Has(props, "name") /\ Has(props, "scheme") /\ Has(props, "load_balancer_type") THEN props.load_balancer_type ELSE None
      W1 == add_op(W, "get_load_balancer", "True")
  IN  IF HasPassBack(E) THEN W
      ELSE IF E.op = "upsert"
      THEN IF load_balancer_non_editable(old_name, old_scheme, old_load_balancer_type, name, scheme, load_balancer_type)
           THEN perm_error(add_log(W1, "Cannot edit non-editable field", TRUE), LoadBalancerNonEditableMessage, 10)
           ELSE W1
      ELSE IF E.op = "delete"
      THEN IF Has(props, "arn")
           THEN add_state(add_op(W, "delete_load_balancer", "True"), [load_balancer_arn |-> props.arn])
           ELSE raise(add_op(W, "delete_load_balancer", "True"), "KeyError")
      ELSE W

AbsentLoadBalancer == [exists |-> FALSE, LoadBalancerArn |-> None, LoadBalancerName |-> None, DNSName |-> None, CanonicalHostedZoneId |-> None, VpcId |-> None, Type |-> None, SecurityGroups |-> None, Subnets |-> None, Scheme |-> None, IpAddressType |-> None, State |-> None, Reason |-> None, Attributes |-> EmptyDict, Tags |-> EmptyDict]

\* the props dict built from a load balancer the provider returned
load_balancer_props(name, lb) == [
  name |-> name,
  arn |-> lb.LoadBalancerArn,
  dns_name |-> lb.DNSName,
  canonical_hosted_zone_id |-> lb.CanonicalHostedZoneId,
  vpc_id |-> lb.VpcId,
  load_balancer_type |-> lb.Type,
  security_groups |-> lb.SecurityGroups,
  subnets |-> lb.Subnets,
  scheme |-> lb.Scheme,
  ip_address_type |-> lb.IpAddressType]

gen_load_balancer_link(rgn, load_balancer_arn) == <<"LoadBalancer", rgn, load_balancer_arn>>

\* variant: every provisioning retry is declared under one key
current_epoch_time_usec_num_fixed(W) == "t1"

\* the clock read that keys a provisioning retry: a new value at every invocation
current_epoch_time_usec_num(W) == <<"t1", "t2", "t3", "t4", "t5", "t6", "t7", "t8", "t9", "t10">>[W.attempt]

\* the special attributes a new load balancer starts with
ProviderSpecialAttributes ==
  ("deletion_protection.enabled" :> "false")
  @@ ("load_balancing.cross_zone.enabled" :> "true")
  @@ ("access_logs.s3.bucket" :> "")
  @@ ("ipv6.deny_all_igw_traffic" :> "false")
  @@ ("idle_timeout.timeout_seconds" :> "60")

NewLoadBalancerArn == "loadbalancer/new"

\* the load balancer the provider starts provisioning from the request
created_load_balancer(attributes) == [
  exists |-> TRUE,
  LoadBalancerArn |-> NewLoadBalancerArn,
  LoadBalancerName |-> attributes.Name,
  DNSName |-> "new.elb.amazonaws.com",
  CanonicalHostedZoneId |-> "Z1",
  VpcId |-> "vpc-1",
  Type |-> attributes.Type,
  SecurityGroups |-> IF Has(attributes, "SecurityGroups") THEN attributes.SecurityGroups ELSE "[sg-default]",
  Subnets |-> attributes.Subnets,
  Scheme |-> attributes.Scheme,
  IpAddressType |-> attributes.IpAddressType,
  State |-> "provisioning",
  Reason |-> None,
  Attributes |-> ProviderSpecialAttributes,
  Tags |-> IF Has(attributes, "Tags") THEN key_value_list_obj_to_compressed_dict(attributes.Tags) ELSE EmptyDict]

\* provisioning goes on in the provider between calls: it may finish or fail before a poll
Provisioned(R, f) ==
  IF R.exists /\ R.State = "provisioning" /\ f = "provisioned" THEN [R EXCEPT !.State = "active"]
  ELSE IF R.exists /\ R.State = "provisioning" /\ f = "failed" THEN [R EXCEPT !.State = "failed", !.Reason = "provisioning failed"]
  ELSE R

\* client.describe_load_balancers(Names=[name])
elbv2_describe_load_balancers(R, name, f) ==
  LET R1 == Provisioned(Seen(R, AbsentLoadBalancer, f), f)
  IN  [remote |-> R1,
       res |-> IF f = "transient" THEN "ClientError"
               ELSE IF R1.exists /\ R1.LoadBalancerName = name THEN "Found"
               ELSE IF f = "empty" THEN "Empty" ELSE "NotFound"]

\* client.describe_load_balancer_attributes(LoadBalancerArn=arn)
elbv2_describe_load_balancer_attributes(R, f) ==
  LET R1 == Seen(R, AbsentLoadBalancer, f)
  IN  [remote |-> R1,
       res |-> IF f = "transient" THEN "ClientError" ELSE IF R1.exists THEN "Found" ELSE "NotFound",
       attributes |-> R1.Attributes]

\* client.create_load_balancer(**attributes): the same name with the same settings answers the existing one
elbv2_create_load_balancer(R, attributes, f) ==
  IF f = "transient" THEN [remote |-> R, res |-> "ClientError"]
  ELSE IF f = "invalid" THEN [remote |-> R, res |-> "InvalidConfigurationRequest"]
  ELSE IF R.exists /\ R.LoadBalancerName = attributes.Name
  THEN IF R.Type = attributes.Type /\ R.Scheme = attributes.Scheme /\ R.Subnets = attributes.Subnets /\ R.IpAddressType = attributes.IpAddressType
       THEN [remote |-> R, res |-> "Created"]
       ELSE [remote |-> R, res |-> "DuplicateLoadBalancerName"]
  ELSE [remote |-> created_load_balancer(attributes), res |-> "Created"]

\* client.set_ip_address_type(LoadBalancerArn=arn, IpAddressType=t)
elbv2_set_ip_address_type(R, ip_address_type, f) ==
  LET R1 == Seen(R, AbsentLoadBalancer, f)
  IN  IF f = "transient" THEN [remote |-> R1, res |-> "ClientError"]
      ELSE IF f = "invalid" THEN [remote |-> R1, res |-> "InvalidConfigurationRequest"]
      ELSE IF ~R1.exists THEN [remote |-> R1, res |-> "NotFound"]
      ELSE [remote |-> [R1 EXCEPT !.IpAddressType = ip_address_type], res |-> "Set"]

\* client.set_security_groups(LoadBalancerArn=arn, SecurityGroups=groups)
elbv2_set_security_groups(R, security_groups, f) ==
  LET R1 == Seen(R, AbsentLoadBalancer, f)
  IN  IF f = "transient" THEN [remote |-> R1, res |-> "ClientError"]
      ELSE IF f = "invalid" THEN [remote |-> R1, res |-> "InvalidConfigurationRequest"]
      ELSE IF ~R1.exists THEN [remote |-> R1, res |-> "NotFound"]
      ELSE [remote |-> [R1 EXCEPT !.SecurityGroups = security_groups], res |-> "Set"]

\* client.set_subnets(**payload)
elbv2_set_subnets(R, payload, f) ==
  LET R1 == Seen(R, AbsentLoadBalancer, f)
  IN  IF f = "transient" THEN [remote |-> R1, res |-> "ClientError"]
      ELSE IF f = "invalid" THEN [remote |-> R1, res |-> "InvalidConfigurationRequest"]
      ELSE IF ~R1.exists THEN [remote |-> R1, res |-> "NotFound"]
      ELSE [remote |-> [R1 EXCEPT !.Subnets = payload.Subnets, !.IpAddressType = IF Has(payload, "IpAddressType") THEN payload.IpAddressType ELSE @], res |-> "Set"]

\* client.modify_load_balancer_attributes(LoadBalancerArn=arn, Attributes=[...])
elbv2_modify_load_balancer_attributes(R, update_attributes, f) ==
  LET R1 == Seen(R, AbsentLoadBalancer, f)
  IN  IF f = "transient" THEN [remote |-> R1, res |-> "ClientError"]
      ELSE IF f = "invalid" THEN [remote |-> R1, res |-> "InvalidConfigurationRequest"]
      ELSE IF ~R1.exists THEN [remote |-> R1, res |-> "NotFound"]
      ELSE [remote |-> [R1 EXCEPT !.Attributes = Merge(@, update_attributes)], res |-> "Modified"]

\* the follow-up block of get_load_balancer and create_load_balancer: which set_* operations to queue
load_balancer_followups(W, attributes, props) ==
  LET ip_differs == Get(attributes, "ip_address_type") # Get(props, "ip_address_type")
      subnets_differ == Get(attributes, "subnets") # Get(props, "subnets")
      groups_differ == Get(attributes, "security_groups") # Get(props, "security_groups")
      W1 == IF ip_differs THEN add_op(W, "set_ip_address_type", "True") ELSE W
      W2 == IF subnets_differ THEN add_op(W1, "set_subnets", "True") ELSE W1
  IN  IF ~subnets_differ /\ ip_differs /\ ~Has(attributes, "load_balancer_type") THEN raise(W1, "KeyError")
      ELSE IF ~subnets_differ /\ ip_differs /\ attributes.load_balancer_type = "network"
      THEN IF groups_differ THEN add_op(add_op(W1, "set_subnets", "True"), "set_security_groups", "True") ELSE add_op(W1, "set_subnets", "True")
      ELSE IF groups_differ THEN add_op(W2, "set_security_groups", "True") ELSE W2

\* update_special_attributes: the declared value or the default, for the keys the provider reports
update_special_attributes(declared, current_special_attributes) ==
  remove_none_attributes([key \in DOMAIN current_special_attributes |-> Or(Get(declared, key), Get(default_special_attributes, key))])

\* variant: the merged update is queued whether or not a special attribute is declared
special_attribute_ops_always_update(W, load_balancer, declared, described, in_create) ==
  LET current_special_attributes == IF load_balancer.IpAddressType = "ipv4" THEN Drop(described, "ipv6.deny_all_igw_traffic") ELSE described
      update == remove_none_attributes([key \in DOMAIN current_special_attributes |-> Or(Get(declared, key), Get(default_special_attributes, key))])
  IN  add_op(add_state(W, [update_special_attributes |-> update]), "update_load_balancer_special_attributes", update)

\* the special-attribute block after describe_load_balancer_attributes answered
special_attribute_ops(W, load_balancer, declared, described, in_create) ==
  LET current_special_attributes == IF load_balancer.IpAddressType = "ipv4" THEN Drop(described, "ipv6.deny_all_igw_traffic") ELSE described
      update == update_special_attributes(declared, current_special_attributes)
  IN  IF DOMAIN declared # {}
      THEN add_op(add_state(W, [update_special_attributes |-> update]), "update_load_balancer_special_attributes", update)
      ELSE add_op(add_state(W, [current_special_attributes |-> current_special_attributes]), "reset_load_balancer_special_attributes", IF in_create THEN current_special_attributes ELSE "True")

\* get_load_balancer once describe_load_balancers answered a load balancer
get_load_balancer_found(W, E, name, f) ==
  LET attributes == load_balancer_attributes(name, E.component_def)
      load_balancer_to_use == W.remote
      load_balancer_arn == load_balancer_to_use.LoadBalancerArn
      W1 == add_log(W, "Got Load Balancer Attributes", FALSE)
      W2 == add_state(W1, [load_balancer_arn |-> load_balancer_arn, region |-> region])
      W3 == add_props(W2, load_balancer_props(name, load_balancer_to_use))
      W4 == add_links(W3, [LoadBalancer |-> gen_load_balancer_link(region, load_balancer_arn)])
      W5 == load_balancer_followups(W4, attributes, prev_props(E.prev_state))
      a == elbv2_describe_load_balancer_attributes(W5.remote, f.b)
      W6 == did(W5, "get_load_balancer", "describe_load_balancer_attributes", load_balancer_arn, a, f.b)
      W7 == IF a.res = "NotFound" THEN add_log(W6, "Load Balancer Not Found", FALSE)
            ELSE special_attribute_ops(add_log(W6, "Got Load Balancer Special Attributes", FALSE), load_balancer_to_use, special_attributes(E.component_def), a.attributes, FALSE)
      t == elbv2_describe_tags(W7.remote, AbsentLoadBalancer, f.c)
      W8 == did(W7, "get_load_balancer", "describe_tags", load_balancer_arn, t, f.c)
  IN  IF W5.exc # None THEN W5
      ELSE IF a.res = "ClientError" THEN retry_error(add_log(W6, "Get Load Balancer Error", TRUE), "Get Load Balancer Error", 10, 0)
      ELSE IF t.res = "ClientError" THEN retry_error(add_log(W8, "Get Load Balancer Error", TRUE), "Get Load Balancer Error", 10, 0)
      ELSE IF t.res = "NotFound" THEN add_log(W8, "Load Balancer Not Found", FALSE)
      ELSE tag_sync_ops(add_log(W8, "Got Tags", FALSE), attributes, t.tags)

\* get_load_balancer, the function under @ext
get_load_balancer_body(W, E, f) ==
  LET name == load_balancer_name(W, E)
      prev_name == Get(prev_props(E.prev_state), "name")
      d == elbv2_describe_load_balancers(W.remote, name, f.a)
      W1 == did(W, "get_load_balancer", "describe_load_balancers", name, d, f.a)
  IN  IF Truthy(prev_name) /\ name # prev_name THEN perm_error(W, "Cannot Change Load Balancer Name", 0)
      ELSE IF d.res = "Found" THEN get_load_balancer_found(W1, E, name, f)
      ELSE IF d.res = "Empty" THEN add_log(W1, "Did not find load balancer", FALSE)
      ELSE IF d.res = "NotFound" THEN add_op(add_log(W1, "Load Balancer Does Not Exist", FALSE), "create_load_balancer", "True")
      ELSE retry_error(add_log(W1, "Get Load Balancer Error", TRUE), "Get Load Balancer Error", 10, 0)

get_load_balancer(W, E, f) == IF ext_runs(W, "get_load_balancer") THEN ext_done(get_load_balancer_body(W, E, f), "get_load_balancer") ELSE W

\* create_load_balancer once the provider answered the new load balancer
create_load_balancer_created(W, E, attributes, f) ==
  LET load_balancer == W.remote
      load_balancer_arn == load_balancer.LoadBalancerArn
      W1 == add_log(W, "Created Load Balancer", FALSE)
      W2 == add_state(W1, [load_balancer_arn |-> load_balancer_arn, region |-> region, name |-> load_balancer.LoadBalancerName])
      W3 == add_props(W2, load_balancer_props(load_balancer.LoadBalancerName, load_balancer))
      W4 == add_links(W3, [LoadBalancer |-> gen_load_balancer_link(region, load_balancer_arn)])
      W5 == load_balancer_followups(add_op(W4, "check_load_balancer_create_complete", "True"), attributes, prev_props(E.prev_state))
      a == elbv2_describe_load_balancer_attributes(W5.remote, f.b)
      W6 == did(W5, "create_load_balancer", "describe_load_balancer_attributes", load_balancer_arn, a, f.b)
      W7 == IF a.res = "NotFound" THEN add_log(W6, "Load Balancer Not Found", FALSE)
            ELSE special_attribute_ops(W6, load_balancer, special_attributes(E.component_def), a.attributes, TRUE)
      t == elbv2_describe_tags(W7.remote, AbsentLoadBalancer, f.c)
      W8 == did(W7, "create_load_balancer", "describe_tags", load_balancer_arn, t, f.c)
  IN  IF W5.exc # None THEN W5
      ELSE IF a.res = "ClientError" THEN handle_common_errors(W6, a.res, "Error Creating Load Balancer", 20)
      ELSE IF t.res = "ClientError" THEN handle_common_errors(W8, t.res, "Error Creating Load Balancer", 20)
      ELSE IF t.res = "NotFound" THEN add_log(W8, "Load Balancer Not Found", FALSE)
      ELSE tag_sync_ops(add_log(W8, "Got Tags", FALSE), attributes, t.tags)

\* create_load_balancer, the function under @ext
create_load_balancer_body(W, E, f) ==
  LET attributes == load_balancer_attributes(load_balancer_name(W, E), E.component_def)
      c == elbv2_create_load_balancer(W.remote, attributes, f.a)
      W1 == did(W, "create_load_balancer", "create_load_balancer", attributes, c, f.a)
  IN  IF c.res = "Created" THEN create_load_balancer_created(W1, E, attributes, f)
      ELSE IF c.res = "DuplicateLoadBalancerName" THEN perm_error(add_log(W1, "Load Balancer name already exists", TRUE), c.res, 20)
      ELSE IF c.res = "InvalidConfigurationRequest" THEN perm_error(add_log(W1, "Invalid Load Balancer Parameters", TRUE), c.res, 20)
      ELSE handle_common_errors(W1, c.res, "Error Creating Load Balancer", 20)

create_load_balancer(W, E, f) == IF ext_runs(W, "create_load_balancer") THEN ext_done(create_load_balancer_body(W, E, f), "create_load_balancer") ELSE W

\* variant: the permanent error of a failed provisioning carries a fixed message
check_load_balancer_create_complete_body_reason_dropped(W, E, f) ==
  LET name == W.eh.state.name
      d == elbv2_describe_load_balancers(W.remote, name, f.a)
      W1 == did(W, "check_load_balancer_create_complete", "describe_load_balancers", name, d, f.a)
      load_balancer_status == d.remote.State
      load_balancer_reason == d.remote.Reason
  IN  IF ~Has(W.eh.state, "name") THEN raise(W, "KeyError")
      ELSE IF d.res = "Found"
      THEN IF load_balancer_status \in {"active", "active_impaired"} THEN add_log(W1, "Load Balancer Creation Succeeded " \o (IF Truthy(load_balancer_reason) THEN load_balancer_reason ELSE ""), FALSE)
           ELSE IF load_balancer_status = "failed" THEN perm_error(add_log(W1, "Load Balancer Creation Failed", TRUE), "Load Balancer Creation Failed", 20)
           ELSE retry_error(add_log(W1, "Provisioning Load Balancer", FALSE), current_epoch_time_usec_num(W1), 30, 8)
      ELSE IF d.res = "Empty" THEN add_log(W1, "Did not find load balancer", FALSE)
      ELSE IF d.res = "NotFound" THEN add_log(W1, "Load Balancer Does Not Exist", FALSE)
      ELSE retry_error(add_log(W1, "Get Load Balancer Error", TRUE), "Get Load Balancer Error", 10, 0)

\* check_load_balancer_create_complete, the function under @ext
check_load_balancer_create_complete_body(W, E, f) ==
  LET name == W.eh.state.name
      d == elbv2_describe_load_balancers(W.remote, name, f.a)
      W1 == did(W, "check_load_balancer_create_complete", "describe_load_balancers", name, d, f.a)
      load_balancer_status == d.remote.State
      load_balancer_reason == d.remote.Reason
  IN  IF ~Has(W.eh.state, "name") THEN raise(W, "KeyError")
      ELSE IF d.res = "Found"
      THEN IF load_balancer_status \in {"active", "active_impaired"} THEN add_log(W1, "Load Balancer Creation Succeeded " \o (IF Truthy(load_balancer_reason) THEN load_balancer_reason ELSE ""), FALSE)
           ELSE IF load_balancer_status = "failed" THEN perm_error(add_log(W1, "Load Balancer Creation Failed", TRUE), "Load Balancer Creation Failed " \o (IF Truthy(load_balancer_reason) THEN load_balancer_reason ELSE ""), 20)
           ELSE retry_error(add_log(W1, "Provisioning Load Balancer", FALSE), current_epoch_time_usec_num(W1), 30, 8)
      ELSE IF d.res = "Empty" THEN add_log(W1, "Did not find load balancer", FALSE)
      ELSE IF d.res = "NotFound" THEN add_log(W1, "Load Balancer Does Not Exist", FALSE)
      ELSE retry_error(add_log(W1, "Get Load Balancer Error", TRUE), "Get Load Balancer Error", 10, 0)

check_load_balancer_create_complete(W, E, f) == IF ext_runs(W, "check_load_balancer_create_complete") THEN ext_done(check_load_balancer_create_complete_body(W, E, f), "check_load_balancer_create_complete") ELSE W

\* remove_tags of the load balancer handler
load_balancer_remove_tags_body(W, E, f) ==
  LET remove_tags == Get(W.eh.ops, "remove_tags")
      load_balancer_arn == W.eh.state.load_balancer_arn
      r == elbv2_remove_tags(W.remote, AbsentLoadBalancer, remove_tags, f.a)
      W1 == did(W, "remove_tags", "remove_tags", remove_tags, r, f.a)
  IN  IF ~Has(W.eh.state, "load_balancer_arn") THEN raise(W, "KeyError")
      ELSE IF r.res = "Removed" THEN add_log(W1, "Removed Tags", FALSE)
      ELSE IF r.res = "NotFound" THEN add_log(W1, "Load Balancer Not Found", FALSE)
      ELSE handle_common_errors(W1, r.res, "Error Removing Load Balancer Tags", 90)

load_balancer_remove_tags(W, E, f) == IF ext_runs(W, "remove_tags") THEN ext_done(load_balancer_remove_tags_body(W, E, f), "remove_tags") ELSE W

\* set_tags of the load balancer handler
load_balancer_set_tags_body(W, E, f) ==
  LET tags == Get(W.eh.ops, "set_tags")
      load_balancer_arn == W.eh.state.load_balancer_arn
      r == elbv2_add_tags(W.remote, AbsentLoadBalancer, tags, f.a)
      W1 == did(W, "set_tags", "add_tags", tags, r, f.a)
  IN  IF ~Has(W.eh.state, "load_balancer_arn") THEN raise(W, "KeyError")
      ELSE IF r.res = "Added" THEN add_log(W1, "Tags Added", FALSE)
      ELSE IF r.res = "NotFound" THEN perm_error(add_log(W1, "Load Balancer Not Found", TRUE), r.res, 90)
      ELSE IF r.res = "TooManyTags" THEN perm_error(add_log(W1, "Too Many Tags on Load Balancer. You may have 50 tags per resource.", TRUE), r.res, 90)
      ELSE handle_common_errors(W1, r.res, "Error Adding Tags", 90)

load_balancer_set_tags(W, E, f) == IF ext_runs(W, "set_tags") THEN ext_done(load_balancer_set_tags_body(W, E, f), "set_tags") ELSE W

\* set_ip_address_type, the function under @ext
set_ip_address_type_body(W, E, f) ==
  LET ip_address_type == Or(E.component_def.ip_address_type, "ipv4")
      load_balancer_arn == W.eh.state.load_balancer_arn
      r == elbv2_set_ip_address_type(W.remote, ip_address_type, f.a)
      W1 == did(W, "set_ip_address_type", "set_ip_address_type", ip_address_type, r, f.a)
  IN  IF ~Has(W.eh.state, "load_balancer_arn") \/ ~Has(W.eh.state, "region") THEN raise(W, "KeyError")
      ELSE IF r.res = "Set" THEN add_props(add_log(W1, "Modified Load Balancer IP Address Type", FALSE), [ip_address_type |-> r.remote.IpAddressType])
      ELSE IF r.res = "NotFound" THEN perm_error(add_log(W1, "Load Balancer Not Found", TRUE), r.res, 70)
      ELSE IF r.res = "InvalidConfigurationRequest" THEN perm_error(add_log(W1, "Invalid Load Balancer IP Address Type", TRUE), r.res, 70)
      ELSE handle_common_errors(W1, r.res, "Error Updating Load Balancer", 70)

set_ip_address_type(W, E, f) == IF ext_runs(W, "set_ip_address_type") THEN ext_done(set_ip_address_type_body(W, E, f), "set_ip_address_type") ELSE W

\* set_security_groups, the function under @ext; the client refuses SecurityGroups=None before sending
set_security_groups_body(W, E, f) ==
  LET security_groups == E.component_def.security_groups
      load_balancer_arn == W.eh.state.load_balancer_arn
      r == elbv2_set_security_groups(W.remote, security_groups, f.a)
      W1 == did(W, "set_security_groups", "set_security_groups", security_groups, r, f.a)
  IN  IF ~Has(W.eh.state, "load_balancer_arn") \/ ~Has(W.eh.state, "region") THEN raise(W, "KeyError")
      ELSE IF security_groups = None THEN raise(W, "ParamValidationError")
      ELSE IF r.res = "Set" THEN add_props(add_log(W1, "Modified Load Balancer Security Groups", FALSE), [security_groups |-> r.remote.SecurityGroups])
      ELSE IF r.res = "NotFound" THEN perm_error(add_log(W1, "Load Balancer Not Found", TRUE), r.res, 70)
      ELSE IF r.res = "InvalidConfigurationRequest" THEN perm_error(add_log(W1, "Invalid Load Balancer Security Group Configuration provided", TRUE), r.res, 70)
      ELSE handle_common_errors(W1, r.res, "Error Updating Load Balancer", 70)

set_security_groups(W, E, f) == IF ext_runs(W, "set_security_groups") THEN ext_done(set_security_groups_body(W, E, f), "set_security_groups") ELSE W

\* set_subnets, the function under @ext; the response carries IpAddressType for network load balancers only
set_subnets_body(W, E, f) ==
  LET subnets == E.component_def.subnets
      ip_address_type == Or(E.component_def.ip_address_type, "ipv4")
      load_balancer_type == Or(E.component_def.load_balancer_type, "application")
      load_balancer_arn == W.eh.state.load_balancer_arn
      payload == IF load_balancer_type = "network"
                 THEN [LoadBalancerArn |-> load_balancer_arn, Subnets |-> subnets, IpAddressType |-> ip_address_type]
                 ELSE [LoadBalancerArn |-> load_balancer_arn, Subnets |-> subnets]
      r == elbv2_set_subnets(W.remote, payload, f.a)
      W1 == did(W, "set_subnets", "set_subnets", payload, r, f.a)
  IN  IF ~Has(W.eh.state, "load_balancer_arn") THEN raise(W, "KeyError")
      ELSE IF subnets = None THEN raise(W, "ParamValidationError")
      ELSE IF r.res = "Set" THEN add_props(add_log(W1, "Modified Load Balancer Subnets", FALSE), [subnets |-> r.remote.Subnets, ip_address_type |-> IF r.remote.Type = "network" THEN r.remote.IpAddressType ELSE None])
      ELSE IF r.res = "NotFound" THEN perm_error(add_log(W1, "Load Balancer Not Found", TRUE), r.res, 70)
      ELSE IF r.res = "InvalidConfigurationRequest" THEN perm_error(add_log(W1, "Invalid Load Balancer Subnets and IP Address Type combination provided", TRUE), r.res, 70)
      ELSE handle_common_errors(W1, r.res, "Error Updating Load Balancer", 70)

set_subnets(W, E, f) == IF ext_runs(W, "set_subnets") THEN ext_done(set_subnets_body(W, E, f), "set_subnets") ELSE W

\* variant: a load balancer that is not found fails the special-attribute update
update_load_balancer_special_attributes_body_not_found_fails(W, E, f) ==
  LET load_balancer_arn == W.eh.state.load_balancer_arn
      update == W.eh.state.update_special_attributes
      r == elbv2_modify_load_balancer_attributes(W.remote, update, f.a)
      W1 == did(W, "update_load_balancer_special_attributes", "modify_load_balancer_attributes", update, r, f.a)
  IN  IF ~Has(W.eh.state, "load_balancer_arn") \/ ~Has(W.eh.state, "update_special_attributes") THEN raise(W, "KeyError")
      ELSE IF r.res = "Modified" THEN add_log(W1, "Modified Load Balancer Special Attributes", FALSE)
      ELSE IF r.res = "NotFound" THEN perm_error(add_log(W1, "Load Balancer Not Found", TRUE), r.res, 80)
      ELSE IF r.res = "InvalidConfigurationRequest" THEN perm_error(add_log(W1, "Invalid Load Balancer Parameters", TRUE), r.res, 80)
      ELSE handle_common_errors(W1, r.res, "Error Updating Load Balancer Special Attributes", 80)

\* update_load_balancer_special_attributes, the function under @ext
update_load_balancer_special_attributes_body(W, E, f) ==
  LET load_balancer_arn == W.eh.state.load_balancer_arn
      update == W.eh.state.update_special_attributes
      r == elbv2_modify_load_balancer_attributes(W.remote, update, f.a)
      W1 == did(W, "update_load_balancer_special_attributes", "modify_load_balancer_attributes", update, r, f.a)
  IN  IF ~Has(W.eh.state, "load_balancer_arn") \/ ~Has(W.eh.state, "update_special_attributes") THEN raise(W, "KeyError")
      ELSE IF r.res = "Modified" THEN add_log(W1, "Modified Load Balancer Special Attributes", FALSE)
      ELSE IF r.res = "NotFound" THEN add_log(W1, "Load Balancer Not Found", FALSE)
      ELSE IF r.res = "InvalidConfigurationRequest" THEN perm_error(add_log(W1, "Invalid Load Balancer Parameters", TRUE), r.res, 80)
      ELSE handle_common_errors(W1, r.res, "Error Updating Load Balancer Special Attributes", 80)

update_load_balancer_special_attributes(W, E, f) == IF ext_runs(W, "update_load_balancer_special_attributes") THEN ext_done(update_load_balancer_special_attributes_body(W, E, f), "update_load_balancer_special_attributes") ELSE W

\* reset_load_balancer_special_attributes, the function under @ext
reset_load_balancer_special_attributes_body(W, E, f) ==
  LET load_balancer_arn == W.eh.state.load_balancer_arn
      current_special_attributes == W.eh.state.current_special_attributes
      update_attributes == remove_none_attributes([key \in DOMAIN current_special_attributes |-> Get(default_special_attributes, key)])
      r == elbv2_modify_load_balancer_attributes(W.remote, update_attributes, f.a)
      W1 == did(W, "reset_load_balancer_special_attributes", "modify_load_balancer_attributes", update_attributes, r, f.a)
  IN  IF ~Has(W.eh.state, "load_balancer_arn") \/ ~Has(W.eh.state, "current_special_attributes") THEN raise(W, "KeyError")
      ELSE IF r.res = "Modified" THEN add_log(W1, "Modified Load Balancer Special Attributes", FALSE)
      ELSE IF r.res = "NotFound" THEN add_log(W1, "Load Balancer Not Found", FALSE)
      ELSE IF r.res = "InvalidConfigurationRequest" THEN perm_error(add_log(W1, "Invalid Load Balancer Parameters", TRUE), r.res, 80)
      ELSE handle_common_errors(W1, r.res, "Error Updating Load Balancer Special Attributes", 80)

reset_load_balancer_special_attributes(W, E, f) == IF ext_runs(W, "reset_load_balancer_special_attributes") THEN ext_done(reset_load_balancer_special_attributes_body(W, E, f), "reset_load_balancer_special_attributes") ELSE W

\* delete_load_balancer, the function under @ext; its OperationNotPermitted branch reads an unbound name
delete_load_balancer_body(W, E, f) ==
  LET load_balancer_arn == W.eh.state.load_balancer_arn
      r == elbv2_delete(W.remote, AbsentLoadBalancer, f.a)
      W1 == did(W, "delete_load_balancer", "delete_load_balancer", load_balancer_arn, r, f.a)
  IN  IF ~Has(W.eh.state, "load_balancer_arn") THEN raise(W, "KeyError")
      ELSE IF r.res = "Deleted" THEN add_log(W1, "Load Balancer Deleted", FALSE)
      ELSE IF r.res = "ResourceInUse" THEN handle_common_errors(W1, r.res, "Error Deleting Load Balancer. Resource in Use.", 80)
      ELSE IF r.res = "OperationNotPermitted" THEN raise(W1, "NameError")
      ELSE IF r.res = "NotFound" THEN add_log(W1, "Old Load Balancer Doesn't Exist", FALSE)
      ELSE handle_common_errors(W1, r.res, "Error Deleting Load Balancer", 80)

delete_load_balancer(W, E, f) == IF ext_runs(W, "delete_load_balancer") THEN ext_done(delete_load_balancer_body(W, E, f), "delete_load_balancer") ELSE W

-----------------------------------------------------------------------------
(* rule handler: src/rule/lambda_function.py                               *)

\* dict equality, key set first
DictEq(d, u) == DOMAIN d = DOMAIN u /\ \A k \in DOMAIN d : d[k] = u[k]

RECURSIVE dict_items(_)
\* [{"Key": f"{key}", "Value": f"{item.get(key)}"} for key in item]
dict_items(item) ==
  IF DOMAIN item = {} THEN <<>>
  ELSE LET key == CHOOSE k \in DOMAIN item : TRUE
       IN  <<[Key |-> ToStr(key), Value |-> ToStr(item[key])]>> \o dict_items(Drop(item, key))

RECURSIVE expand_list_dict_to_key_value_list_obj(_)
expand_list_dict_to_key_value_list_obj(list_obj) ==
  IF list_obj = <<>> THEN <<>> ELSE dict_items(Head(list_obj)) \o expand_list_dict_to_key_value_list_obj(Tail(list_obj))

key_value_list_obj_to_compressed_list_dict(list_obj) == [i \in 1..Len(list_obj) |-> (ToStr(list_obj[i].Key) :> ToStr(list_obj[i].Value))]

ConditionFields == {"http-header", "http-request-method", "host-header", "path-pattern", "query-string", "source-ip"}

\* one branch of the if/elif chain of conditions_to_formatted_conditions
format_condition(item) ==
  CASE item.field = "http-header" -> [Field |-> item.field, HttpHeaderConfig |-> [HttpHeaderName |-> Get(item, "http_header_name"), Values |-> Get(item, "values")]]
    [] item.field = "http-request-method" -> [Field |-> item.field, HttpRequestMethodConfig |-> [Values |-> Get(item, "values")]]
    [] item.field = "host-header" -> [Field |-> item.field, HostHeaderConfig |-> [Values |-> Get(item, "values")]]
    [] item.field = "path-pattern" -> [Field |-> item.field, PathPatternConfig |-> [Values |-> Get(item, "values")]]
    [] item.field = "query-string" -> [Field |-> item.field, QueryStringConfig |-> [Values |-> expand_list_dict_to_key_value_list_obj(item.values)]]
    [] item.field = "source-ip" -> [Field |-> item.field, SourceIpConfig |-> [Values |-> Get(item, "values")]]

conditions_to_formatted_conditions(conditions) ==
  LET known(item) == item.field \in ConditionFields
      kept == SelectSeq(conditions, known)
  IN  [i \in 1..Len(kept) |-> format_condition(kept[i])]

\* item.get(config, {}).get("Values")
config_values(item, config) == IF Has(item, config) THEN item[config].Values ELSE None

\* variant: the translation back leaves out the header name of an http-header condition
unformat_condition_without_header_name(item) ==
  CASE item.Field = "http-header" -> [field |-> item.Field, values |-> config_values(item, "HttpHeaderConfig")]
    [] item.Field = "http-request-method" -> [field |-> item.Field, values |-> config_values(item, "HttpRequestMethodConfig")]
    [] item.Field = "host-header" -> [field |-> item.Field, values |-> config_values(item, "HostHeaderConfig")]
    [] item.Field = "path-pattern" -> [field |-> item.Field, values |-> config_values(item, "PathPatternConfig")]
    [] item.Field = "query-string" -> [field |-> item.Field, values |-> key_value_list_obj_to_compressed_list_dict(item.QueryStringConfig.Values)]
    [] item.Field = "source-ip" -> [field |-> item.Field, values |-> config_values(item, "SourceIpConfig")]

\* one branch of the if/elif chain of formatted_conditions_to_conditions
unformat_condition(item) ==
  CASE item.Field = "http-header" -> [field |-> item.Field, values |-> config_values(item, "HttpHeaderConfig"), http_header_name |-> IF Has(item, "HttpHeaderConfig") THEN item.HttpHeaderConfig.HttpHeaderName ELSE None]
    [] item.Field = "http-request-method" -> [field |-> item.Field, values |-> config_values(item, "HttpRequestMethodConfig")]
    [] item.Field = "host-header" -> [field |-> item.Field, values |-> config_values(item, "HostHeaderConfig")]
    [] item.Field = "path-pattern" -> [field |-> item.Field, values |-> config_values(item, "PathPatternConfig")]
    [] item.Field = "query-string" -> [field |-> item.Field, values |-> key_value_list_obj_to_compressed_list_dict(item.QueryStringConfig.Values)]
    [] item.Field = "source-ip" -> [field |-> item.Field, values |-> config_values(item, "SourceIpConfig")]

formatted_conditions_to_conditions(formatted_conditions) ==
  LET known(item) == item.Field \in ConditionFields
      kept == SelectSeq(formatted_conditions, known)
  IN  [i \in 1..Len(kept) |-> unformat_condition(kept[i])]

\* the attributes dict lambda_handler builds from component_def
rule_attributes(cdef) ==
  LET listener_arn == cdef.listener_arn
      target_group_arn == cdef.target_group_arn
      priority == cdef.priority
      action_type == Or(cdef.action_type, "forward")
      tags == cdef.tags
      formatted_conditions == conditions_to_formatted_conditions(cdef.conditions)
      scalars == remove_none_attributes([
        ListenerArn |-> IF Truthy(listener_arn) THEN ToStr(listener_arn) ELSE listener_arn,
        Priority |-> IF Truthy(priority) THEN ToInt(priority) ELSE priority])
      conditionsd == IF formatted_conditions # <<>> THEN [Conditions |-> formatted_conditions] ELSE EmptyDict
      actions == [Actions |-> <<[Type |-> IF Truthy(action_type) THEN ToStr(action_type) ELSE action_type,
                                 TargetGroupArn |-> IF Truthy(target_group_arn) THEN ToStr(target_group_arn) ELSE target_group_arn]>>]
      tagsd == IF DOMAIN tags # {} THEN [Tags |-> expand_dict_to_key_value_list_obj(tags)] ELSE EmptyDict
  IN  Merge(Merge(Merge(scalars, conditionsd), actions), tagsd)

\* the non-editable test of lambda_handler, as written: the old ARN is compared with itself
rule_non_editable(old_listener_arn, listener_arn) == Truthy(old_listener_arn) /\ old_listener_arn # old_listener_arn

RuleNonEditableMessage == "You may not edit the Listener ARN of an existing Listener Rule. Please create a new component to get the desired configuration."

\* lambda_handler up to the first operation: the starting point of the invocation
rule_lambda_handler(W, E) ==
  LET cdef == E.component_def
      props == prev_props(E.prev_state)
      listener_arn == cdef.listener_arn
      old_listener_arn == IF Has(props, "old_listener_arn") THEN props.old_listener_arn ELSE None
      W1 == add_op(W, "get_rule", "True")
  IN  IF cdef.conditions = None THEN raise(W, "TypeError")
      ELSE IF HasPassBack(E) THEN W
      ELSE IF E.op = "upsert"
      THEN IF rule_non_editable(old_listener_arn, listener_arn)
           THEN perm_error(add_log(W1, "Cannot edit non-editable field", TRUE), RuleNonEditableMessage, 10)
           ELSE W1
      ELSE IF E.op = "delete"
      THEN IF Has(props, "arn")
           THEN add_state(add_op(W, "delete_rule", "True"), [rule_arn |-> props.arn])
           ELSE raise(add_op(W, "delete_rule", "True"), "KeyError")
      ELSE W

AbsentRule == [exists |-> FALSE, RuleArn |-> None, ListenerArn |-> None, Priority |-> None, Conditions |-> <<>>, Type |-> None, TargetGroupArn |-> None, Tags |-> EmptyDict]

gen_rule_link(rgn, rule_arn) == <<"ListenerRuleDetails", rgn, rule_arn>>

\* existing_props of get_rule: the listener ARN is the one prev_state recorded
rule_existing_props(rule_to_use, existing_listener_arn) == [
  arn |-> rule_to_use.RuleArn,
  listener_arn |-> existing_listener_arn,
  priority |-> rule_to_use.Priority,
  conditions |-> formatted_conditions_to_conditions(rule_to_use.Conditions),
  action_type |-> rule_to_use.Type,
  target_group_arn |-> rule_to_use.TargetGroupArn]

\* props_to_add of create_rule and existing_props of update_rule
rule_props(rule, attributes) == [
  arn |-> rule.RuleArn,
  listener_arn |-> Get(attributes, "ListenerArn"),
  conditions |-> formatted_conditions_to_conditions(rule.Conditions),
  priority |-> rule.Priority,
  action_type |-> rule.Type,
  target_group_arn |-> rule.TargetGroupArn]

\* current_attributes of get_rule, rebuilt from existing_props
rule_current_attributes(existing_props) ==
  LET reformatted_conditions == existing_props.conditions
      scalars == remove_none_attributes([
        ListenerArn |-> IF Truthy(existing_props.listener_arn) THEN ToStr(existing_props.listener_arn) ELSE existing_props.listener_arn,
        Priority |-> IF Truthy(existing_props.priority) THEN ToInt(existing_props.priority) ELSE ToStr(existing_props.priority)])
      conditionsd == IF reformatted_conditions # <<>>
                     THEN [Conditions |-> conditions_to_formatted_conditions(reformatted_conditions)] ELSE EmptyDict
      actions == [Actions |-> <<[Type |-> IF Truthy(existing_props.action_type) THEN ToStr(existing_props.action_type) ELSE existing_props.action_type,
                                 TargetGroupArn |-> IF Truthy(existing_props.target_group_arn) THEN ToStr(existing_props.target_group_arn) ELSE existing_props.target_group_arn]>>]
  IN  Merge(Merge(scalars, conditionsd), actions)

\* variant: the priority takes part in the comparison that queues update_rule
rule_needs_update_with_priority(attributes, current_attributes) == ~DictEq(Drop(attributes, "Tags"), Drop(current_attributes, "Tags"))

\* comparable_attributes != comparable_current_attributes
rule_needs_update(attributes, current_attributes) == ~DictEq(Drop(Drop(attributes, "Tags"), "Priority"), Drop(Drop(current_attributes, "Tags"), "Priority"))

\* attributes.get("Priority") != current_attributes.get("Priority")
rule_needs_priority(attributes, current_attributes) == Get(attributes, "Priority") # Get(current_attributes, "Priority")

NewRuleArn == "rule/new"

\* a condition as the provider reports it: host-header and path-pattern also carry the legacy Values key
provider_condition(item) == IF item.Field = "path-pattern" THEN Put(item, "Values", item.PathPatternConfig.Values) ELSE IF item.Field = "host-header" THEN Put(item, "Values", item.HostHeaderConfig.Values) ELSE item

provider_conditions(formatted_conditions) == [i \in 1..Len(formatted_conditions) |-> provider_condition(formatted_conditions[i])]

\* the rule the provider creates from the request
created_rule(attributes) == [
  exists |-> TRUE,
  RuleArn |-> NewRuleArn,
  ListenerArn |-> attributes.ListenerArn,
  Priority |-> ToStr(attributes.Priority),
  Conditions |-> provider_conditions(attributes.Conditions),
  Type |-> attributes.Actions[1].Type,
  TargetGroupArn |-> attributes.Actions[1].TargetGroupArn,
  Tags |-> IF Has(attributes, "Tags") THEN key_value_list_obj_to_compressed_dict(attributes.Tags) ELSE EmptyDict]

\* client.describe_rules(RuleArns=[arn])
elbv2_describe_rules(R, arn, f) ==
  LET R1 == Seen(R, AbsentRule, f)
  IN  [remote |-> R1,
       res |-> IF f = "transient" THEN "ClientError"
               ELSE IF R1.exists /\ R1.RuleArn = arn THEN "Found"
               ELSE IF f = "empty" THEN "Empty" ELSE "NotFound"]

\* client.create_rule(**attributes)
elbv2_create_rule(R, attributes, f) ==
  IF f = "transient" THEN [remote |-> R, res |-> "ClientError"]
  ELSE IF f = "invalid" THEN [remote |-> R, res |-> "InvalidConfigurationRequest"]
  ELSE IF f = "priority_in_use" \/ (R.exists /\ R.ListenerArn = attributes.ListenerArn /\ R.Priority = ToStr(attributes.Priority))
  THEN [remote |-> R, res |-> "PriorityInUse"]
  ELSE [remote |-> created_rule(attributes), res |-> "Created"]

\* client.modify_rule(**modifiable_attributes)
elbv2_modify_rule(R, m, f) ==
  LET R1 == Seen(R, AbsentRule, f)
  IN  IF f = "transient" THEN [remote |-> R1, res |-> "ClientError"]
      ELSE IF ~(R1.exists /\ R1.RuleArn = m.RuleArn) THEN [remote |-> R1, res |-> "NotFound"]
      ELSE [res |-> "Modified",
            remote |-> [R1 EXCEPT
              !.Conditions = IF Has(m, "Conditions") THEN provider_conditions(m.Conditions) ELSE @,
              !.Type = m.Actions[1].Type,
              !.TargetGroupArn = m.Actions[1].TargetGroupArn]]

\* client.set_rule_priorities(RulePriorities=[{RuleArn, Priority}])
elbv2_set_rule_priorities(R, priority, f) ==
  LET R1 == Seen(R, AbsentRule, f)
  IN  IF f = "transient" THEN [remote |-> R1, res |-> "ClientError"]
      ELSE IF f = "priority_in_use" THEN [remote |-> R1, res |-> "PriorityInUse"]
      ELSE IF f = "not_permitted" THEN [remote |-> R1, res |-> "OperationNotPermitted"]
      ELSE IF ~R1.exists THEN [remote |-> R1, res |-> "NotFound"]
      ELSE [remote |-> [R1 EXCEPT !.Priority = ToStr(priority)], res |-> "Set"]

\* get_rule once describe_rules answered a rule
get_rule_found(W, E, attributes, f) ==
  LET rule_to_use == W.remote
      rule_arn == rule_to_use.RuleArn
      existing_listener_arn == Get(prev_props(E.prev_state), "listener_arn")
      existing_props == rule_existing_props(rule_to_use, existing_listener_arn)
      current_attributes == rule_current_attributes(existing_props)
      W1 == add_log(W, "Got Rule Attributes", FALSE)
      W2 == add_state(W1, [rule_arn |-> rule_arn, region |-> region])
      W3 == add_props(W2, existing_props)
      W4 == add_links(W3, [Rule |-> gen_rule_link(region, rule_arn)])
      W5 == IF rule_needs_update(attributes, current_attributes) THEN add_op(W4, "update_rule", "True") ELSE W4
      W6 == IF rule_needs_priority(attributes, current_attributes) THEN add_op(W5, "update_rule_priority", "True") ELSE W5
      t == elbv2_describe_tags(W6.remote, AbsentRule, f.b)
      W7 == did(W6, "get_rule", "describe_tags", rule_arn, t, f.b)
  IN  IF t.res = "ClientError" THEN retry_error(add_log(W7, "Get Listener Rule Error", TRUE), "Get Listener Rule Error", 10, 0)
      ELSE IF t.res = "NotFound" THEN add_log(W7, "Listener Rule Not Found", FALSE)
      ELSE tag_sync_ops(add_log(W7, "Got Tags", FALSE), attributes, t.tags)

\* variant: an empty lookup result is only logged, no create is queued
get_rule_body_empty_ignored(W, E, f) ==
  LET attributes == rule_attributes(E.component_def)
      existing_rule_arn == Get(prev_props(E.prev_state), "arn")
      d == elbv2_describe_rules(W.remote, existing_rule_arn, f.a)
      W1 == did(W, "get_rule", "describe_rules", existing_rule_arn, d, f.a)
  IN  IF Truthy(existing_rule_arn)
      THEN IF d.res = "Found" THEN get_rule_found(W1, E, attributes, f)
           ELSE IF d.res = "ClientError" THEN retry_error(add_log(W1, "Get Listener Rule Error", TRUE), "Get Listener Rule Error", 10, 0)
           ELSE IF d.res = "Empty" THEN add_log(W1, "Listener Rule Does Not Exist", FALSE)
           ELSE add_op(add_log(W1, "Listener Rule Does Not Exist", FALSE), "create_rule", "True")
      ELSE add_op(add_log(W, "Listener Rule Does Not Exist", FALSE), "create_rule", "True")

\* get_rule, the function under @ext
get_rule_body(W, E, f) ==
  LET attributes == rule_attributes(E.component_def)
      existing_rule_arn == Get(prev_props(E.prev_state), "arn")
      d == elbv2_describe_rules(W.remote, existing_rule_arn, f.a)
      W1 == did(W, "get_rule", "describe_rules", existing_rule_arn, d, f.a)
  IN  IF Truthy(existing_rule_arn)
      THEN IF d.res = "Found" THEN get_rule_found(W1, E, attributes, f)
           ELSE IF d.res = "ClientError" THEN retry_error(add_log(W1, "Get Listener Rule Error", TRUE), "Get Listener Rule Error", 10, 0)
           ELSE add_op(add_log(W1, "Listener Rule Does Not Exist", FALSE), "create_rule", "True")
      ELSE add_op(add_log(W, "Listener Rule Does Not Exist", FALSE), "create_rule", "True")

get_rule(W, E, f) == IF ext_runs(W, "get_rule") THEN ext_done(get_rule_body(W, E, f), "get_rule") ELSE W

\* create_rule, the function under @ext; the client refuses a request without Priority or Conditions
create_rule_body(W, E, f) ==
  LET attributes == rule_attributes(E.component_def)
      c == elbv2_create_rule(W.remote, attributes, f.a)
      W1 == did(W, "create_rule", "create_rule", attributes, c, f.a)
      rule == c.remote
      W2 == add_log(W1, "Created Listener Rule", FALSE)
      W3 == add_state(W2, [rule_arn |-> rule.RuleArn, region |-> region])
      W4 == add_props(W3, rule_props(rule, attributes))
      W5 == add_links(W4, [Rule |-> gen_rule_link(region, rule.RuleArn)])
      t == elbv2_describe_tags(W5.remote, AbsentRule, f.b)
      W6 == did(W5, "create_rule", "describe_tags", rule.RuleArn, t, f.b)
  IN  IF ~Has(attributes, "ListenerArn") \/ ~Has(attributes, "Priority") \/ ~Has(attributes, "Conditions") THEN raise(W, "ParamValidationError")
      ELSE IF c.res = "Created"
      THEN IF t.res = "ClientError" THEN handle_common_errors(W6, t.res, "Error Creating Listener Rule", 20)
           ELSE IF t.res = "NotFound" THEN add_log(W6, "Rule Not Found", FALSE)
           ELSE tag_sync_ops(add_log(W6, "Got Tags", FALSE), attributes, t.tags)
      ELSE IF c.res = "PriorityInUse" THEN perm_error(add_log(W1, "Priority assigned to this listener rule already exists", TRUE), c.res, 20)
      ELSE IF c.res = "InvalidConfigurationRequest" THEN perm_error(add_log(W1, "The configuration provided for this Listener Rule is invalid. Please enter valid configuration and try again.", TRUE), c.res, 20)
      ELSE handle_common_errors(W1, c.res, "Error Creating Listener Rule", 20)

create_rule(W, E, f) == IF ext_runs(W, "create_rule") THEN ext_done(create_rule_body(W, E, f), "create_rule") ELSE W

\* update_rule, the function under @ext
update_rule_body(W, E, f) ==
  LET attributes == rule_attributes(E.component_def)
      modifiable_attributes == Put(Drop(Drop(Drop(attributes, "Tags"), "ListenerArn"), "Priority"), "RuleArn", W.eh.state.rule_arn)
      m == elbv2_modify_rule(W.remote, modifiable_attributes, f.a)
      W1 == did(W, "update_rule", "modify_rule", modifiable_attributes, m, f.a)
      rule == m.remote
      W2 == add_props(add_log(W1, "Updated Listener Rule", FALSE), rule_props(rule, attributes))
  IN  IF ~Has(W.eh.state, "rule_arn") THEN raise(W, "KeyError")
      ELSE IF m.res = "Modified" THEN add_links(W2, [Rule |-> gen_rule_link(region, rule.RuleArn)])
      ELSE IF m.res = "NotFound" THEN perm_error(add_log(W1, "Listener Rule Not Found", TRUE), m.res, 20)
      ELSE handle_common_errors(W1, m.res, "Error Creating Listener Rule", 20)

update_rule(W, E, f) == IF ext_runs(W, "update_rule") THEN ext_done(update_rule_body(W, E, f), "update_rule") ELSE W

\* update_rule_priority, the function under @ext; its RuleNotFound branch reads an unbound name
update_rule_priority_body(W, E, f) ==
  LET priority == E.component_def.priority
      rule_arn == W.eh.state.rule_arn
      sent == IF Truthy(priority) THEN ToInt(priority) ELSE priority
      r == elbv2_set_rule_priorities(W.remote, sent, f.a)
      W1 == did(W, "update_rule_priority", "set_rule_priorities", sent, r, f.a)
  IN  IF ~Has(W.eh.state, "rule_arn") THEN raise(W, "KeyError")
      ELSE IF sent = None THEN raise(W, "ParamValidationError")
      ELSE IF r.res = "Set" THEN add_log(add_props(W1, [Priority |-> priority]), "Updated Listener Rule Priority", FALSE)
      ELSE IF r.res = "NotFound" THEN raise(add_log(W1, "Listener Rule Not Found", FALSE), "NameError")
      ELSE IF r.res = "PriorityInUse" THEN perm_error(add_log(W1, "Priority assigned to this listener rule already exists", TRUE), r.res, 30)
      ELSE IF r.res = "OperationNotPermitted" THEN perm_error(add_log(W1, "The operation of updating the priority on this listener rule is not permitted.", TRUE), r.res, 30)
      ELSE handle_common_errors(W1, r.res, "Error Updating the Listener Rule Priority", 80)

update_rule_priority(W, E, f) == IF ext_runs(W, "update_rule_priority") THEN ext_done(update_rule_priority_body(W, E, f), "update_rule_priority") ELSE W

\* remove_tags of the rule handler: it names ListenerNotFoundException, so a missing rule is a plain ClientError
rule_remove_tags_body(W, E, f) ==
  LET remove_tags == Get(W.eh.ops, "remove_tags")
      rule_arn == W.eh.state.rule_arn
      r == elbv2_remove_tags(W.remote, AbsentRule, remove_tags, f.a)
      W1 == did(W, "remove_tags", "remove_tags", remove_tags, r, f.a)
  IN  IF ~Has(W.eh.state, "rule_arn") THEN raise(W, "KeyError")
      ELSE IF r.res = "Removed" THEN add_log(W1, "Removed Tags", FALSE)
      ELSE handle_common_errors(W1, r.res, "Error Removing Listener Rule Tags", 90)

rule_remove_tags(W, E, f) == IF ext_runs(W, "remove_tags") THEN ext_done(rule_remove_tags_body(W, E, f), "remove_tags") ELSE W

\* set_tags of the rule handler
rule_set_tags_body(W, E, f) ==
  LET tags == Get(W.eh.ops, "set_tags")
      rule_arn == W.eh.state.rule_arn
      r == elbv2_add_tags(W.remote, AbsentRule, tags, f.a)
      W1 == did(W, "set_tags", "add_tags", tags, r, f.a)
  IN  IF ~Has(W.eh.state, "rule_arn") THEN raise(W, "KeyError")
      ELSE IF r.res = "Added" THEN add_log(W1, "Tags Added", FALSE)
      ELSE IF r.res = "NotFound" THEN perm_error(add_log(W1, "Listener Rule Not Found", TRUE), r.res, 90)
      ELSE IF r.res = "TooManyTags" THEN perm_error(add_log(W1, "Too Many Tags on Listener Rule. You may have 50 tags per resource.", TRUE), r.res, 90)
      ELSE handle_common_errors(W1, r.res, "Error Adding Tags", 90)

rule_set_tags(W, E, f) == IF ext_runs(W, "set_tags") THEN ext_done(rule_set_tags_body(W, E, f), "set_tags") ELSE W

\* variant: a rule that is already gone is treated like any other provider error
delete_rule_body_not_found_retried(W, E, f) ==
  LET rule_arn == W.eh.state.rule_arn
      r == elbv2_delete(W.remote, AbsentRule, f.a)
      W1 == did(W, "delete_rule", "delete_rule", rule_arn, r, f.a)
  IN  IF ~Has(W.eh.state, "rule_arn") THEN raise(W, "KeyError")
      ELSE IF r.res = "Deleted" THEN add_log(W1, "Listener Rule Deleted", FALSE)
      ELSE handle_common_errors(W1, r.res, "Error Deleting Listener Rule", 80)

\* delete_rule, the function under @ext
delete_rule_body(W, E, f) ==
  LET rule_arn == W.eh.state.rule_arn
      r == elbv2_delete(W.remote, AbsentRule, f.a)
      W1 == did(W, "delete_rule", "delete_rule", rule_arn, r, f.a)
  IN  IF ~Has(W.eh.state, "rule_arn") THEN raise(W, "KeyError")
      ELSE IF r.res = "Deleted" THEN add_log(W1, "Listener Rule Deleted", FALSE)
      ELSE IF r.res = "NotFound" THEN add_log(W1, "Listener Rule Not Found", TRUE)
      ELSE handle_common_errors(W1, r.res, "Error Deleting Listener Rule", 80)

delete_rule(W, E, f) == IF ext_runs(W, "delete_rule") THEN ext_done(delete_rule_body(W, E, f), "delete_rule") ELSE W

-----------------------------------------------------------------------------
(* the invocation: capture_event, the except block, finish                 *)

MaxRetriesPerErrorCode == 6

\* variant: a retry hands back operations, state, links and retry counts, but props start empty
capture_event_without_props(E) == IF HasPassBack(E) THEN [FreshEh EXCEPT !.ops = E.pass_back_data.ops, !.state = E.pass_back_data.state, !.links = E.pass_back_data.links, !.retries = E.pass_back_data.retries] ELSE FreshEh

\* eh.capture_event(event): a fresh handler, or the ledger a retry hands back
capture_event(E) == IF HasPassBack(E) THEN [FreshEh EXCEPT !.ops = E.pass_back_data.ops, !.state = E.pass_back_data.state, !.props = E.pass_back_data.props, !.links = E.pass_back_data.links, !.retries = E.pass_back_data.retries] ELSE FreshEh

\* variant: the except block reports the exception without logging it
lambda_handler_except_unlogged(W) == declare_return(W, W.exc, 0)

\* the "except Exception" block of lambda_handler
lambda_handler_except(W) == declare_return(add_log(W, "Unexpected Error", TRUE), W.exc, 0)

Tries(retries, key) == IF Has(retries, key) THEN retries[key] ELSE 0

\* eh.finish(): the structured result handed to the caller
finish(h) ==
  LET base == [kind |-> "success", progress |-> 100, callback_sec |-> 0, error |-> None, props |-> h.props, links |-> h.links, logs |-> h.logs, pass_back_data |-> EmptyDict]
      n == Tries(h.retries, h.ret.error) + 1
  IN  IF ~h.ret.declared THEN base
      ELSE IF h.ret.kind = "retry" /\ n <= MaxRetriesPerErrorCode
      THEN [base EXCEPT !.kind = "retry", !.progress = h.ret.progress, !.callback_sec = h.ret.callback_sec, !.error = h.ret.error,
                        !.pass_back_data = [ops |-> h.ops, state |-> h.state, props |-> h.props, links |-> h.links, retries |-> Put(h.retries, h.ret.error, n)]]
      ELSE [base EXCEPT !.kind = "error", !.progress = h.ret.progress, !.error = h.ret.error]

NoResult == [kind |-> "none", progress |-> 0, callback_sec |-> 0, error |-> None, props |-> EmptyDict, links |-> EmptyDict, logs |-> <<>>, pass_back_data |-> EmptyDict]

-----------------------------------------------------------------------------
(* bounds and inputs                                                       *)

\* provider errors injected per deployment
MaxFaults == 1

\* invocations per deployment (the first one and its retries)
MaxAttempts == 3

FaultsUsed(W) == Cardinality({i \in DOMAIN W.calls : W.calls[i].injected})

Budget(W) == FaultsUsed(W) <= MaxFaults

\* the faults of an operation's first and second provider call
Faults(A, B) == [a : A, b : B]

DesiredTags == {EmptyDict, [b |-> "2", c |-> "i3"]}

RemoteTags == {EmptyDict, [a |-> "1", b |-> "2"], [b |-> "2", c |-> "3"], [b |-> "9", c |-> "3"]}

LiveListenerHttps == [exists |-> TRUE, ListenerArn |-> "listener/1", LoadBalancerArn |-> "lb1", Port |-> "i443", Protocol |-> "HTTPS", SslPolicy |-> DefaultSslPolicy, CertificateArn |-> "cert1", Type |-> "forward", TargetGroupArn |-> "tg1", Tags |-> EmptyDict]

LiveListenerHttp == [exists |-> TRUE, ListenerArn |-> "listener/1", LoadBalancerArn |-> "lb1", Port |-> "i443", Protocol |-> "HTTP", SslPolicy |-> None, CertificateArn |-> None, Type |-> "forward", TargetGroupArn |-> "tg1", Tags |-> EmptyDict]

ListenerCdefs == [load_balancer_arn : {"lb1", "lb2"}, protocol : {None, "HTTP"}, port : {None, "i8443"}, ssl_policy : {None}, certificate_arn : {None, "cert1"}, action_type : {None}, target_group_arn : {"tg1"}, tags : DesiredTags]

ListenerRemotes == {AbsentListener} \cup {[l EXCEPT !.Tags = t] : l \in {LiveListenerHttps, LiveListenerHttp}, t \in RemoteTags}

ListenerPrevStates == {EmptyDict} \cup {[props |-> listener_props(l)] : l \in {LiveListenerHttps, LiveListenerHttp}}

ListenerEvents ==
  {[op |-> "upsert", component_def |-> c, prev_state |-> p, pass_back_data |-> EmptyDict] : c \in ListenerCdefs, p \in ListenerPrevStates}
  \cup {[op |-> "delete", component_def |-> c, prev_state |-> p, pass_back_data |-> EmptyDict] : c \in {x \in ListenerCdefs : x.load_balancer_arn = "lb1" /\ x.protocol = None /\ x.port = None /\ x.certificate_arn = "cert1" /\ x.tags = EmptyDict}, p \in ListenerPrevStates}

\* how many fields of a component definition differ from the base definition
Deviations(c, base) == Cardinality({k \in DOMAIN c : c[k] # base[k]})

LiveLoadBalancer == [exists |-> TRUE, LoadBalancerArn |-> "loadbalancer/1", LoadBalancerName |-> "lb-a", DNSName |-> "lb-a.elb.amazonaws.com", CanonicalHostedZoneId |-> "Z1", VpcId |-> "vpc-1", Type |-> "application", SecurityGroups |-> "[sg1]", Subnets |-> "[s1,s2]", Scheme |-> "internal", IpAddressType |-> "ipv4", State |-> "active", Reason |-> None, Attributes |-> ProviderSpecialAttributes, Tags |-> EmptyDict]

LoadBalancerBaseCdef == [name |-> "lb-a", subnets |-> "[s1,s2]", security_groups |-> "[sg1]", scheme |-> None, load_balancer_type |-> None, ip_address_type |-> None, deletion_protection_enabled |-> None, load_balancing_cross_zone_enabled |-> None, access_logs_s3_bucket |-> None, ipv6_deny_all_igw_traffic |-> None, idle_timeout_timeout_seconds |-> None, tags |-> EmptyDict]

LoadBalancerCdefs == {c \in [name : {None, "lb-a"}, subnets : {"[s1,s2]", "[s1,s3]"}, security_groups : {None, "[sg1]"}, scheme : {None, "internet-facing"}, load_balancer_type : {None, "network"}, ip_address_type : {None, "dualstack"}, deletion_protection_enabled : {None, "bTrue", "bFalse"}, load_balancing_cross_zone_enabled : {None, "bFalse"}, access_logs_s3_bucket : {None, "logs"}, ipv6_deny_all_igw_traffic : {None}, idle_timeout_timeout_seconds : {None, "i120"}, tags : DesiredTags] : Deviations(c, LoadBalancerBaseCdef) <= 1}

LoadBalancerRemotes == {AbsentLoadBalancer, [LiveLoadBalancer EXCEPT !.Attributes = Put(@, "deletion_protection.enabled", "true")]} \cup {[LiveLoadBalancer EXCEPT !.Tags = t] : t \in RemoteTags}

LoadBalancerPrevStates == {EmptyDict, [props |-> load_balancer_props("lb-a", LiveLoadBalancer)]}

LoadBalancerEvents ==
  {[op |-> "upsert", component_def |-> c, prev_state |-> p, pass_back_data |-> EmptyDict] : c \in LoadBalancerCdefs, p \in LoadBalancerPrevStates}
  \cup {[op |-> "delete", component_def |-> LoadBalancerBaseCdef, prev_state |-> p, pass_back_data |-> EmptyDict] : p \in LoadBalancerPrevStates}

PathCondition == [field |-> "path-pattern", values |-> <<"/a">>]

QueryCondition == [field |-> "query-string", values |-> <<("k" :> "i1")>>]

LiveRule == [exists |-> TRUE, RuleArn |-> "rule/1", ListenerArn |-> "listener/1", Priority |-> "1", Conditions |-> provider_conditions(conditions_to_formatted_conditions(<<PathCondition>>)), Type |-> "forward", TargetGroupArn |-> "tg1", Tags |-> EmptyDict]

RuleBaseCdef == [listener_arn |-> "listener/1", target_group_arn |-> "tg1", conditions |-> <<PathCondition>>, priority |-> "i1", action_type |-> None, tags |-> EmptyDict]

RuleCdefs == {c \in [listener_arn : {"listener/1", "listener/2"}, target_group_arn : {"tg1", "tg2"}, conditions : {<<PathCondition>>, <<QueryCondition>>}, priority : {"i1", "i2"}, action_type : {None}, tags : DesiredTags] : Deviations(c, RuleBaseCdef) <= 2}

RuleRemotes == {AbsentRule} \cup {[LiveRule EXCEPT !.Tags = t] : t \in RemoteTags}

RulePrevStates == {EmptyDict, [props |-> rule_props(LiveRule, [ListenerArn |-> "listener/1"])]}

RuleEvents ==
  {[op |-> "upsert", component_def |-> c, prev_state |-> p, pass_back_data |-> EmptyDict] : c \in RuleCdefs, p \in RulePrevStates}
  \cup {[op |-> "delete", component_def |-> RuleBaseCdef, prev_state |-> p, pass_back_data |-> EmptyDict] : p \in RulePrevStates}

\* the faults of an operation's three provider calls
Faults3(A, B, C) == [a : A, b : B, c : C]

-----------------------------------------------------------------------------
(* the state machine                                                       *)

World == [eh |-> eh, remote |-> remote, calls |-> calls, exc |-> None, attempt |-> attempt]

\* the operation returned (or raised): the dispatcher moves on, or the except block runs
Step(W, next) ==
  /\ Budget(W)
  /\ eh' = IF W.exc # None THEN lambda_handler_except(W).eh ELSE W.eh
  /\ remote' = W.remote
  /\ calls' = W.calls
  /\ pc' = IF W.exc # None THEN "finish" ELSE next
  /\ UNCHANGED <<handler, event, result, attempt, remote0>>

\* variant: the listener's set_tags is declared before its remove_tags
listener_sequence_add_first == <<"get_listener", "delete_listener", "create_listener", "update_listener", "listener_set_tags", "listener_remove_tags", "finish">>

\* the call declarations of lambda_handler, in the order the source lists them
listener_sequence == <<"get_listener", "delete_listener", "create_listener", "update_listener", "listener_remove_tags", "listener_set_tags", "finish">>

\* variant: the load balancer's updates are declared before its tag-sync operations
load_balancer_sequence_updates_first ==
  <<"get_load_balancer", "delete_load_balancer", "create_load_balancer", "check_load_balancer_create_complete",
    "set_ip_address_type", "set_security_groups", "set_subnets",
    "update_load_balancer_special_attributes", "reset_load_balancer_special_attributes",
    "load_balancer_remove_tags", "load_balancer_set_tags", "finish">>

load_balancer_sequence ==
  <<"get_load_balancer", "delete_load_balancer", "create_load_balancer", "check_load_balancer_create_complete",
    "load_balancer_remove_tags", "load_balancer_set_tags", "set_ip_address_type", "set_security_groups", "set_subnets",
    "update_load_balancer_special_attributes", "reset_load_balancer_special_attributes", "finish">>

rule_sequence == <<"get_rule", "delete_rule", "create_rule", "update_rule", "update_rule_priority", "rule_remove_tags", "rule_set_tags", "finish">>

\* the declaration after p in the dispatch of this deployment's handler
Following(p) ==
  LET s == CASE handler = "listener" -> listener_sequence [] handler = "load_balancer" -> load_balancer_sequence [] handler = "rule" -> rule_sequence
  IN  s[(CHOOSE i \in DOMAIN s : s[i] = p) + 1]

First(h) == CASE h = "listener" -> "get_listener" [] h = "load_balancer" -> "get_load_balancer" [] h = "rule" -> "get_rule"

\* lambda_handler up to its first operation, for the handler of this deployment
lambda_handler(W, E) == CASE handler = "listener" -> listener_lambda_handler(W, E) [] handler = "load_balancer" -> load_balancer_lambda_handler(W, E) [] handler = "rule" -> rule_lambda_handler(W, E)

\* every provider call answers from the remote state; a load balancer finishes provisioning before the poll
NoFault == [a |-> "ok", b |-> "ok", c |-> "ok"]

Prompt == [a |-> "provisioned", b |-> "ok", c |-> "ok"]

\* the dispatch of the listener handler, one invocation from its starting point to the end of the queue
listener_dispatch(W, E) ==
  LET W1 == get_listener(W, E, NoFault)
      W2 == IF W1.exc # None THEN W1 ELSE delete_listener(W1, E, NoFault)
      W3 == IF W2.exc # None THEN W2 ELSE create_listener(W2, E, NoFault)
      W4 == IF W3.exc # None THEN W3 ELSE update_listener(W3, E, NoFault)
      W5 == IF W4.exc # None THEN W4 ELSE listener_remove_tags(W4, E, NoFault)
  IN  IF W5.exc # None THEN W5 ELSE listener_set_tags(W5, E, NoFault)

\* the dispatch of the load balancer handler
load_balancer_dispatch(W, E) ==
  LET W1 == get_load_balancer(W, E, NoFault)
      W2 == IF W1.exc # None THEN W1 ELSE delete_load_balancer(W1, E, NoFault)
      W3 == IF W2.exc # None THEN W2 ELSE create_load_balancer(W2, E, NoFault)
      W4 == IF W3.exc # None THEN W3 ELSE check_load_balancer_create_complete(W3, E, Prompt)
      W5 == IF W4.exc # None THEN W4 ELSE load_balancer_remove_tags(W4, E, NoFault)
      W6 == IF W5.exc # None THEN W5 ELSE load_balancer_set_tags(W5, E, NoFault)
      W7 == IF W6.exc # None THEN W6 ELSE set_ip_address_type(W6, E, NoFault)
      W8 == IF W7.exc # None THEN W7 ELSE set_security_groups(W7, E, NoFault)
      W9 == IF W8.exc # None THEN W8 ELSE set_subnets(W8, E, NoFault)
      W10 == IF W9.exc # None THEN W9 ELSE update_load_balancer_special_attributes(W9, E, NoFault)
  IN  IF W10.exc # None THEN W10 ELSE reset_load_balancer_special_attributes(W10, E, NoFault)

\* the dispatch of the rule handler
rule_dispatch(W, E) ==
  LET W1 == get_rule(W, E, NoFault)
      W2 == IF W1.exc # None THEN W1 ELSE delete_rule(W1, E, NoFault)
      W3 == IF W2.exc # None THEN W2 ELSE create_rule(W2, E, NoFault)
      W4 == IF W3.exc # None THEN W3 ELSE update_rule(W3, E, NoFault)
      W5 == IF W4.exc # None THEN W4 ELSE update_rule_priority(W4, E, NoFault)
      W6 == IF W5.exc # None THEN W5 ELSE rule_remove_tags(W5, E, NoFault)
  IN  IF W6.exc # None THEN W6 ELSE rule_set_tags(W6, E, NoFault)

\* one whole invocation in which no provider call fails: what lambda_handler returns
uninterrupted(R, E) ==
  LET W0 == [eh |-> capture_event(E), remote |-> R, calls |-> <<>>, exc |-> None, attempt |-> 1]
      W1 == lambda_handler(W0, E)
      W2 == IF W1.exc # None THEN W1
            ELSE CASE handler = "listener" -> listener_dispatch(W1, E)
                   [] handler = "load_balancer" -> load_balancer_dispatch(W1, E)
                   [] handler = "rule" -> rule_dispatch(W1, E)
  IN  finish(IF W2.exc # None THEN lambda_handler_except(W2).eh ELSE W2.eh)

Init ==
  /\ \/ handler = "listener" /\ event \in ListenerEvents /\ remote \in ListenerRemotes
     \/ handler = "load_balancer" /\ event \in LoadBalancerEvents /\ remote \in LoadBalancerRemotes
     \/ handler = "rule" /\ event \in RuleEvents /\ remote \in RuleRemotes
  /\ eh = FreshEh
  /\ calls = <<>>
  /\ pc = "invoke"
  /\ result = NoResult
  /\ attempt = 1
  /\ remote0 = remote

\* the caller invokes lambda_handler(event, context)
Invoke ==
  /\ pc = "invoke"
  /\ Step(lambda_handler([World EXCEPT !.eh = capture_event(event)], event), First(handler))

GetListener == handler = "listener" /\ pc = "get_listener" /\ \E f \in Faults({"ok", "transient", "gone", "empty"}, {"ok", "transient", "gone"}) : Step(get_listener(World, event, f), Following("get_listener"))

DeleteListener == handler = "listener" /\ pc = "delete_listener" /\ \E f \in Faults({"ok", "transient", "gone", "in_use"}, {"ok"}) : Step(delete_listener(World, event, f), Following("delete_listener"))

CreateListener == handler = "listener" /\ pc = "create_listener" /\ \E f \in Faults({"ok", "transient", "invalid"}, {"ok", "transient", "gone"}) : Step(create_listener(World, event, f), Following("create_listener"))

UpdateListener == handler = "listener" /\ pc = "update_listener" /\ \E f \in Faults({"ok", "transient", "gone", "invalid"}, {"ok"}) : Step(update_listener(World, event, f), Following("update_listener"))

ListenerRemoveTags == handler = "listener" /\ pc = "listener_remove_tags" /\ \E f \in Faults({"ok", "transient", "gone"}, {"ok"}) : Step(listener_remove_tags(World, event, f), Following("listener_remove_tags"))

ListenerSetTags == handler = "listener" /\ pc = "listener_set_tags" /\ \E f \in Faults({"ok", "transient", "gone", "invalid"}, {"ok"}) : Step(listener_set_tags(World, event, f), Following("listener_set_tags"))

GetLoadBalancer == handler = "load_balancer" /\ pc = "get_load_balancer" /\ \E f \in Faults3({"ok", "transient", "gone", "empty"}, {"ok", "transient", "gone"}, {"ok", "transient", "gone"}) : Step(get_load_balancer(World, event, f), Following("get_load_balancer"))

DeleteLoadBalancer == handler = "load_balancer" /\ pc = "delete_load_balancer" /\ \E f \in Faults({"ok", "transient", "gone", "in_use", "not_permitted"}, {"ok"}) : Step(delete_load_balancer(World, event, f), Following("delete_load_balancer"))

CreateLoadBalancer == handler = "load_balancer" /\ pc = "create_load_balancer" /\ \E f \in Faults3({"ok", "transient", "invalid"}, {"ok", "transient", "gone"}, {"ok", "transient", "gone"}) : Step(create_load_balancer(World, event, f), Following("create_load_balancer"))

CheckLoadBalancerCreateComplete == handler = "load_balancer" /\ pc = "check_load_balancer_create_complete" /\ \E f \in Faults({"ok", "provisioned", "failed", "transient", "gone", "empty"}, {"ok"}) : Step(check_load_balancer_create_complete(World, event, f), Following("check_load_balancer_create_complete"))

LoadBalancerRemoveTags == handler = "load_balancer" /\ pc = "load_balancer_remove_tags" /\ \E f \in Faults({"ok", "transient", "gone"}, {"ok"}) : Step(load_balancer_remove_tags(World, event, f), Following("load_balancer_remove_tags"))

LoadBalancerSetTags == handler = "load_balancer" /\ pc = "load_balancer_set_tags" /\ \E f \in Faults({"ok", "transient", "gone", "invalid"}, {"ok"}) : Step(load_balancer_set_tags(World, event, f), Following("load_balancer_set_tags"))

SetIpAddressType == handler = "load_balancer" /\ pc = "set_ip_address_type" /\ \E f \in Faults({"ok", "transient", "gone", "invalid"}, {"ok"}) : Step(set_ip_address_type(World, event, f), Following("set_ip_address_type"))

SetSecurityGroups == handler = "load_balancer" /\ pc = "set_security_groups" /\ \E f \in Faults({"ok", "transient", "gone", "invalid"}, {"ok"}) : Step(set_security_groups(World, event, f), Following("set_security_groups"))

SetSubnets == handler = "load_balancer" /\ pc = "set_subnets" /\ \E f \in Faults({"ok", "transient", "gone", "invalid"}, {"ok"}) : Step(set_subnets(World, event, f), Following("set_subnets"))

UpdateLoadBalancerSpecialAttributes == handler = "load_balancer" /\ pc = "update_load_balancer_special_attributes" /\ \E f \in Faults({"ok", "transient", "gone", "invalid"}, {"ok"}) : Step(update_load_balancer_special_attributes(World, event, f), Following("update_load_balancer_special_attributes"))

ResetLoadBalancerSpecialAttributes == handler = "load_balancer" /\ pc = "reset_load_balancer_special_attributes" /\ \E f \in Faults({"ok", "transient", "gone", "invalid"}, {"ok"}) : Step(reset_load_balancer_special_attributes(World, event, f), Following("reset_load_balancer_special_attributes"))

GetRule == handler = "rule" /\ pc = "get_rule" /\ \E f \in Faults({"ok", "transient", "gone", "empty"}, {"ok", "transient", "gone"}) : Step(get_rule(World, event, f), Following("get_rule"))

DeleteRule == handler = "rule" /\ pc = "delete_rule" /\ \E f \in Faults({"ok", "transient", "gone"}, {"ok"}) : Step(delete_rule(World, event, f), Following("delete_rule"))

CreateRule == handler = "rule" /\ pc = "create_rule" /\ \E f \in Faults({"ok", "transient", "invalid", "priority_in_use"}, {"ok", "transient", "gone"}) : Step(create_rule(World, event, f), Following("create_rule"))

UpdateRule == handler = "rule" /\ pc = "update_rule" /\ \E f \in Faults({"ok", "transient", "gone"}, {"ok"}) : Step(update_rule(World, event, f), Following("update_rule"))

UpdateRulePriority == handler = "rule" /\ pc = "update_rule_priority" /\ \E f \in Faults({"ok", "transient", "gone", "priority_in_use", "not_permitted"}, {"ok"}) : Step(update_rule_priority(World, event, f), Following("update_rule_priority"))

RuleRemoveTags == handler = "rule" /\ pc = "rule_remove_tags" /\ \E f \in Faults({"ok", "transient", "gone"}, {"ok"}) : Step(rule_remove_tags(World, event, f), Following("rule_remove_tags"))

RuleSetTags == handler = "rule" /\ pc = "rule_set_tags" /\ \E f \in Faults({"ok", "transient", "gone", "invalid"}, {"ok"}) : Step(rule_set_tags(World, event, f), Following("rule_set_tags"))

\* return eh.finish()
Finish ==
  /\ pc = "finish"
  /\ result' = finish(eh)
  /\ pc' = "done"
  /\ UNCHANGED <<handler, event, eh, remote, calls, attempt, remote0>>

\* the caller answers a retry request: the same event plus the returned pass_back_data
Reinvoke ==
  /\ pc = "done"
  /\ result.kind = "retry"
  /\ attempt < MaxAttempts
  /\ event' = [event EXCEPT !.pass_back_data = result.pass_back_data]
  /\ attempt' = attempt + 1
  /\ pc' = "invoke"
  /\ UNCHANGED <<handler, eh, remote, calls, result, remote0>>

Next ==
  \/ Invoke
  \/ GetListener
  \/ DeleteListener
  \/ CreateListener
  \/ UpdateListener
  \/ ListenerRemoveTags
  \/ ListenerSetTags
  \/ GetLoadBalancer
  \/ DeleteLoadBalancer
  \/ CreateLoadBalancer
  \/ CheckLoadBalancerCreateComplete
  \/ LoadBalancerRemoveTags
  \/ LoadBalancerSetTags
  \/ SetIpAddressType
  \/ SetSecurityGroups
  \/ SetSubnets
  \/ UpdateLoadBalancerSpecialAttributes
  \/ ResetLoadBalancerSpecialAttributes
  \/ GetRule
  \/ DeleteRule
  \/ CreateRule
  \/ UpdateRule
  \/ UpdateRulePriority
  \/ RuleRemoveTags
  \/ RuleSetTags
  \/ Finish
  \/ Reinvoke

Spec == Init /\ [][Next]_vars

-----------------------------------------------------------------------------
(* the provisioning wait: a new load balancer, and a caller that answers   *)
(* every retry request for longer than the retry limit of one error code   *)

\* invocations per deployment while the caller keeps answering the poll's retry requests
MaxPolls == 8

InitWait ==
  /\ handler = "load_balancer"
  /\ event \in {e \in LoadBalancerEvents : e.op = "upsert" /\ e.prev_state = EmptyDict}
  /\ remote = AbsentLoadBalancer
  /\ eh = FreshEh
  /\ calls = <<>>
  /\ pc = "invoke"
  /\ result = NoResult
  /\ attempt = 1
  /\ remote0 = remote

\* the caller answers a retry request, up to MaxPolls invocations
ReinvokeWait ==
  /\ pc = "done"
  /\ result.kind = "retry"
  /\ attempt < MaxPolls
  /\ event' = [event EXCEPT !.pass_back_data = result.pass_back_data]
  /\ attempt' = attempt + 1
  /\ pc' = "invoke"
  /\ UNCHANGED <<handler, eh, remote, calls, result, remote0>>

NextWait ==
  \/ Invoke
  \/ GetLoadBalancer
  \/ DeleteLoadBalancer
  \/ CreateLoadBalancer
  \/ CheckLoadBalancerCreateComplete
  \/ LoadBalancerRemoveTags
  \/ LoadBalancerSetTags
  \/ SetIpAddressType
  \/ SetSecurityGroups
  \/ SetSubnets
  \/ UpdateLoadBalancerSpecialAttributes
  \/ ResetLoadBalancerSpecialAttributes
  \/ Finish
  \/ ReinvokeWait

SpecWait == InitWait /\ [][NextWait]_vars

-----------------------------------------------------------------------------
(* the rule handler alone, over a wider range of declarations: an absent   *)
(* priority, every shape of condition the translation treats differently,  *)
(* and live rules at either priority                                       *)

HeaderCondition == [field |-> "http-header", values |-> <<"v">>, http_header_name |-> "X-A"]

\* one dict of the declared query-string list carries two keys
TwoKeyQueryCondition == [field |-> "query-string", values |-> <<("a" :> "1" @@ "b" :> "2")>>]

\* a field neither direction of the translation knows
OtherCondition == [field |-> "cookie", values |-> <<"c">>]

\* an http-header condition declared without its optional header name
NamelessHeaderCondition == [field |-> "http-header", values |-> <<"v">>]

DeclaredConditions == {<<PathCondition>>, <<QueryCondition>>, <<TwoKeyQueryCondition>>, <<HeaderCondition>>, <<NamelessHeaderCondition>>, <<PathCondition, OtherCondition>>}

RuleWideCdefs == [listener_arn : {"listener/1"}, target_group_arn : {"tg1"}, conditions : DeclaredConditions, priority : {None, "i1", "i2"}, action_type : {None}, tags : {EmptyDict}]

RuleWideRemotes == {AbsentRule} \cup {[LiveRule EXCEPT !.Conditions = provider_conditions(conditions_to_formatted_conditions(d)), !.Priority = p] : d \in DeclaredConditions, p \in {"1", "2"}}

RuleWideEvents ==
  {[op |-> "upsert", component_def |-> c, prev_state |-> p, pass_back_data |-> EmptyDict] : c \in RuleWideCdefs, p \in RulePrevStates}
  \cup {[op |-> "delete", component_def |-> RuleBaseCdef, prev_state |-> p, pass_back_data |-> EmptyDict] : p \in RulePrevStates}

InitRule ==
  /\ handler = "rule"
  /\ event \in RuleWideEvents
  /\ remote \in RuleWideRemotes
  /\ eh = FreshEh
  /\ calls = <<>>
  /\ pc = "invoke"
  /\ result = NoResult
  /\ attempt = 1
  /\ remote0 = remote

NextRule ==
  \/ Invoke
  \/ GetRule
  \/ DeleteRule
  \/ CreateRule
  \/ UpdateRule
  \/ UpdateRulePriority
  \/ RuleRemoveTags
  \/ RuleSetTags
  \/ Finish
  \/ Reinvoke

SpecRule == InitRule /\ [][NextRule]_vars

-----------------------------------------------------------------------------
(* properties                                                              *)

PrevProps == prev_props(event.prev_state)

Cdef == event.component_def

FirstUpsert(h) == handler = h /\ event.op = "upsert" /\ ~HasPassBack(event)

ListenerChanged ==
  /\ FirstUpsert("listener")
  /\ Has(PrevProps, "load_balancer_arn")
  /\ (PrevProps.load_balancer_arn # Cdef.load_balancer_arn \/ PrevProps.port # Or(Cdef.port, "i443"))

\* C1: a listener upsert without pass_back_data whose prev_state.props record a
\* load_balancer_arn or port different from the declared one ends with a permanent
\* error (progress 10, the may-not-edit message) and makes no provider call.
C1_ListenerNonEditable ==
  ListenerChanged =>
    /\ pc # "invoke" => (calls = <<>> /\ eh.ret.declared /\ eh.ret.kind = "perm" /\ eh.ret.progress = 10 /\ eh.ret.error = ListenerNonEditableMessage)
    /\ pc = "done" => (result.kind = "error" /\ result.progress = 10 /\ result.error = ListenerNonEditableMessage)

C1_Witness ==
  /\ ListenerChanged
  /\ PrevProps.load_balancer_arn = Cdef.load_balancer_arn
  /\ PrevProps.port # Or(Cdef.port, "i443")
  /\ pc = "done"
  /\ result.kind = "error"

LoadBalancerChanged ==
  /\ FirstUpsert("load_balancer")
  /\ Has(PrevProps, "name")
  /\ \/ PrevProps.name # Or(Cdef.name, component_safe_name)
     \/ PrevProps.scheme # Or(Cdef.scheme, "internal")
     \/ PrevProps.load_balancer_type # Or(Cdef.load_balancer_type, "application")

\* C2: a load balancer upsert without pass_back_data whose prev_state.props record a
\* name, scheme or load_balancer_type different from the declared or defaulted one
\* ends with a permanent error; no lookup, delete or create call is made and the
\* load balancer is left as it was.
C2_LoadBalancerNonEditable ==
  LoadBalancerChanged =>
    /\ pc # "invoke" => (calls = <<>> /\ remote = remote0 /\ eh.ret.declared /\ eh.ret.kind = "perm")
    /\ pc = "done" => (result.kind = "error" /\ result.error = LoadBalancerNonEditableMessage)

C2_Witness ==
  /\ LoadBalancerChanged
  /\ PrevProps.name = Or(Cdef.name, component_safe_name)
  /\ PrevProps.scheme # Or(Cdef.scheme, "internal")
  /\ remote0.exists
  /\ pc = "done"
  /\ result.kind = "error"

RuleChanged ==
  /\ FirstUpsert("rule")
  /\ Has(PrevProps, "listener_arn")
  /\ PrevProps.listener_arn # Cdef.listener_arn

\* C3: a rule upsert whose prev_state.props record a listener ARN different from
\* the declared listener_arn ends with a permanent error (the may-not-edit-the-
\* Listener-ARN message) before any provider call.
C3_RuleNonEditable ==
  RuleChanged =>
    /\ pc # "invoke" => (calls = <<>> /\ eh.ret.declared /\ eh.ret.kind = "perm" /\ eh.ret.error = RuleNonEditableMessage)
    /\ pc = "done" => (result.kind = "error" /\ result.error = RuleNonEditableMessage)

\* the provider calls the step being taken adds to the log
NewCalls == SubSeq(calls', Len(calls) + 1, Len(calls'))

\* the operations the step being taken adds to the queue
NewOps == DOMAIN eh'.ops \ DOMAIN eh.ops

GetListenerNotFound ==
  (handler = "listener" /\ event.op = "upsert" /\ pc = "get_listener" /\ ext_runs(World, "get_listener") /\ pc' = "delete_listener") =>
    /\ ~Truthy(Get(PrevProps, "arn")) => (NewCalls = <<>> /\ NewOps = {"create_listener"})
    /\ (Truthy(Get(PrevProps, "arn")) /\ NewCalls # <<>> /\ NewCalls[1].res \in {"NotFound", "Empty"}) => (Len(NewCalls) = 1 /\ NewOps = {"create_listener"})

GetRuleNotFound ==
  (handler = "rule" /\ event.op = "upsert" /\ pc = "get_rule" /\ ext_runs(World, "get_rule") /\ pc' = "delete_rule") =>
    /\ ~Truthy(Get(PrevProps, "arn")) => (NewCalls = <<>> /\ NewOps = {"create_rule"})
    /\ (Truthy(Get(PrevProps, "arn")) /\ NewCalls # <<>> /\ NewCalls[1].res \in {"NotFound", "Empty"}) => (Len(NewCalls) = 1 /\ NewOps = {"create_rule"})

\* C4: in the listener and rule handlers, a get operation that finds no recorded
\* props.arn, or whose lookup by the recorded ARN answers not-found (by exception
\* or by an empty result), queues exactly the create operation, queues no update,
\* priority or delete operation, and makes no further lookup.
C4_NotFoundQueuesCreate == [][GetListenerNotFound /\ GetRuleNotFound]_vars

C4_Witness ==
  /\ handler = "rule"
  /\ pc = "delete_rule"
  /\ Len(calls) = 1
  /\ calls[1].api = "describe_rules"
  /\ calls[1].res = "Empty"
  /\ DOMAIN eh.ops = {"create_rule"}

LastCall == calls[Len(calls)]

\* the tag diff of get or create is the last thing the invocation did
TagDiffDone ==
  /\ calls # <<>>
  /\ LastCall.api = "describe_tags"
  /\ LastCall.res = "Found"
  /\ LastCall.attempt = attempt
  /\ \/ LastCall.op \in {"get_listener", "get_load_balancer", "get_rule"} /\ pc \in {"delete_listener", "delete_load_balancer", "delete_rule"}
     \/ LastCall.op \in {"create_listener", "create_load_balancer", "create_rule"} /\ pc \in {"update_listener", "check_load_balancer_create_complete", "update_rule"}

DesiredTagMap == [k \in DOMAIN Cdef.tags |-> ToStr(Cdef.tags[k])]

StaleTagKeys == {k \in DOMAIN remote.Tags : k \notin DOMAIN DesiredTagMap}

MissingTagKeys == {k \in DOMAIN DesiredTagMap : k \notin DOMAIN remote.Tags \/ remote.Tags[k] # DesiredTagMap[k]}

\* C5: after the tag diff of any handler, remove_tags is queued exactly when some
\* current key is absent from the desired tags and carries exactly those keys;
\* set_tags is queued exactly when some desired pair is new or changed and carries
\* exactly those pairs; the two payloads share no key.
C5_TagDiff ==
  TagDiffDone =>
    /\ Has(eh.ops, "remove_tags") <=> StaleTagKeys # {}
    /\ Has(eh.ops, "remove_tags") => eh.ops["remove_tags"] = StaleTagKeys
    /\ Has(eh.ops, "set_tags") <=> MissingTagKeys # {}
    /\ Has(eh.ops, "set_tags") => eh.ops["set_tags"] = [k \in MissingTagKeys |-> DesiredTagMap[k]]
    /\ (Has(eh.ops, "remove_tags") /\ Has(eh.ops, "set_tags")) => eh.ops["remove_tags"] \cap DOMAIN eh.ops["set_tags"] = {}

C5_Witness ==
  /\ TagDiffDone
  /\ handler = "rule"
  /\ remote.Tags = [a |-> "1", b |-> "2"]
  /\ DesiredTagMap = [b |-> "2", c |-> "3"]
  /\ eh.ops["remove_tags"] = {"a"}
  /\ eh.ops["set_tags"] = [c |-> "3"]

\* every provider call so far was a lookup that found the resource
OnlyFoundLookups == \A i \in DOMAIN calls : calls[i].res = "Found"

\* the live listener already is what the component definition declares, field by
\* field: undeclared protocol, port and action type mean their defaults, an
\* undeclared certificate means none, an undeclared SSL policy means none or the default
ListenerConverged ==
  /\ FirstUpsert("listener")
  /\ remote0.exists
  /\ PrevProps = listener_props(remote0)
  /\ remote0.LoadBalancerArn = Cdef.load_balancer_arn
  /\ remote0.Protocol = Or(Cdef.protocol, "HTTPS")
  /\ remote0.Port = Or(Cdef.port, "i443")
  /\ remote0.SslPolicy \in (IF Cdef.ssl_policy = None THEN {None, DefaultSslPolicy} ELSE {Cdef.ssl_policy})
  /\ remote0.CertificateArn = Cdef.certificate_arn
  /\ remote0.Type = Or(Cdef.action_type, "forward")
  /\ remote0.TargetGroupArn = Cdef.target_group_arn
  /\ remote0.Tags = DesiredTagMap

\* C6: an upsert pass over a live listener whose fields equal every declared field
\* and whose tags equal the desired tags queues none of create_listener,
\* update_listener, remove_tags, set_tags, for every protocol, also when the
\* provider reports no SSL policy or certificate and none is declared.
C6_ListenerIdempotent ==
  (ListenerConverged /\ OnlyFoundLookups /\ pc \notin {"invoke", "get_listener"}) =>
    DOMAIN eh.ops \cap {"create_listener", "update_listener", "remove_tags", "set_tags"} = {}

\* the live load balancer already is what the component definition declares,
\* and prev_state.props record it
LoadBalancerConverged ==
  /\ FirstUpsert("load_balancer")
  /\ remote0.exists
  /\ remote0.LoadBalancerName = Or(Cdef.name, component_safe_name)
  /\ remote0.Subnets = Cdef.subnets
  /\ remote0.SecurityGroups = Cdef.security_groups
  /\ remote0.IpAddressType = Or(Cdef.ip_address_type, "ipv4")
  /\ remote0.Tags = DesiredTagMap
  /\ \A k \in DOMAIN remote0.Attributes : Or(Get(special_attributes(Cdef), k), Get(default_special_attributes, k)) \in {None, remote0.Attributes[k]}
  /\ PrevProps = load_balancer_props(remote0.LoadBalancerName, remote0)

\* C7: an upsert pass over a load balancer found by name that already has the
\* declared subnets, security groups, IP address type, tags and special attribute
\* values, with prev_state.props recording the same, queues none of
\* set_ip_address_type, set_subnets, set_security_groups, the two special
\* attribute operations, remove_tags, set_tags.
C7_LoadBalancerIdempotent ==
  (LoadBalancerConverged /\ OnlyFoundLookups /\ pc \notin {"invoke", "get_load_balancer"}) =>
    DOMAIN eh.ops \cap {"set_ip_address_type", "set_subnets", "set_security_groups", "update_load_balancer_special_attributes", "reset_load_balancer_special_attributes", "remove_tags", "set_tags"} = {}

CallsWhere(api) == {i \in DOMAIN calls : calls[i].api = api}

NoProviderError == FaultsUsed(World) = 0 /\ \A i \in DOMAIN calls : calls[i].res # "Empty"

CheckOp == "check_load_balancer_create_complete"

\* the status poll of this invocation just saw the load balancer still provisioning
PollSawProvisioning ==
  /\ handler = "load_balancer"
  /\ calls # <<>>
  /\ LastCall.op = CheckOp
  /\ LastCall.res = "Found"
  /\ LastCall.attempt = attempt
  /\ remote.State = "provisioning"
  /\ pc # CheckOp

\* the deployment created the load balancer, was told to come back after the first
\* poll, and its second invocation has ended with the load balancer active
CreatedThenActive ==
  /\ handler = "load_balancer"
  /\ pc = "done"
  /\ attempt = 2
  /\ NoProviderError
  /\ \E i \in CallsWhere("create_load_balancer") : calls[i].attempt = 1
  /\ \E i \in DOMAIN calls : calls[i].op = CheckOp /\ calls[i].attempt = 2 /\ calls[i].res = "Found"
  /\ remote.State = "active"

\* C9: when create_load_balancer succeeded and the poll reports provisioning, the
\* invocation returns a retry request (progress 30, callback 8 s, no permanent
\* error) with the poll still queued; when the poll of the re-invocation reports
\* active, the rest of the queue runs and the deployment ends in success with
\* progress 100, without a second lookup by get or a second create.
C9_CreateThenPoll ==
  /\ PollSawProvisioning =>
       /\ eh.ret.declared /\ eh.ret.kind = "retry" /\ eh.ret.progress = 30 /\ eh.ret.callback_sec = 8
       /\ Has(eh.ops, CheckOp)
       /\ pc = "done" => (result.kind = "retry" /\ result.progress = 30 /\ result.callback_sec = 8 /\ Has(result.pass_back_data.ops, CheckOp))
  /\ CreatedThenActive =>
       /\ result.kind = "success" /\ result.progress = 100
       /\ Cardinality(CallsWhere("create_load_balancer")) = 1
       /\ \A i \in DOMAIN calls : calls[i].op = "get_load_balancer" => calls[i].attempt = 1

\* the request the normalizer is to build: declared values, documented defaults, absent fields omitted
ExpectedCreateListener ==
  Merge(Merge([LoadBalancerArn |-> Cdef.load_balancer_arn,
               Protocol |-> Cdef.protocol,
               Port |-> Cdef.port,
               SslPolicy |-> IF Cdef.ssl_policy = None THEN "ELBSecurityPolicy-TLS13-1-2-2021-06" ELSE Cdef.ssl_policy,
               DefaultActions |-> <<[Type |-> IF Cdef.action_type = None THEN "forward" ELSE Cdef.action_type, TargetGroupArn |-> Cdef.target_group_arn]>>],
              IF Cdef.certificate_arn = None THEN EmptyDict ELSE [Certificates |-> <<[CertificateArn |-> Cdef.certificate_arn]>>]),
        IF DOMAIN Cdef.tags = {} THEN EmptyDict ELSE [Tags |-> {[Key |-> k, Value |-> DesiredTagMap[k]] : k \in DOMAIN Cdef.tags}])

\* a first listener deployment declaring port, protocol and target group has ended, no provider call having failed
ListenerCreated ==
  /\ FirstUpsert("listener")
  /\ event.prev_state = EmptyDict
  /\ Cdef.port # None /\ Cdef.protocol # None /\ Cdef.target_group_arn # None
  /\ NoProviderError
  /\ pc = "done"

\* C10: a listener upsert with empty prev_state that declares port, protocol and
\* target_group_arn issues exactly one create_listener call carrying exactly the
\* normalized attributes, issues no modify or delete call, and ends in success
\* with progress 100 and Props holding the new listener's arn.
C10_ListenerCreation ==
  ListenerCreated =>
    /\ Cardinality(CallsWhere("create_listener")) = 1
    /\ \A i \in CallsWhere("create_listener") : calls[i].arg = ExpectedCreateListener
    /\ CallsWhere("modify_listener") = {} /\ CallsWhere("delete_listener") = {}
    /\ result.kind = "success" /\ result.progress = 100
    /\ Has(result.props, "arn") /\ result.props.arn = remote.ListenerArn /\ remote.ListenerArn = NewListenerArn

C10_Witness ==
  /\ ListenerCreated
  /\ Cdef.tags # EmptyDict
  /\ result.kind = "success"
  /\ result.props.arn = NewListenerArn

\* the deployment as first submitted, before any retry handed a ledger back
Event0 == [event EXCEPT !.pass_back_data = EmptyDict]

\* every answer of the provider came from the remote state the deployment itself
\* left: the only injected errors are the ones that ask for a retry
RemoteUntouched == \A i \in DOMAIN calls : calls[i].res # "Empty" /\ (calls[i].injected => calls[i].res \in {"ClientError", "ResourceInUse"})

\* a deployment that was re-invoked at least once has ended in success
ResumedToSuccess == pc = "done" /\ attempt > 1 /\ result.kind = "success" /\ RemoteUntouched

\* C8: for every handler and every point at which an operation asks for a retry,
\* re-invoking with the same event plus the returned pass_back_data ends, at final
\* success, with the same Props as one uninterrupted invocation over the same
\* event and the same initial remote state, nobody else changing the remote state.
C8_RetryResumption == ResumedToSuccess => DictEq(result.props, uninterrupted(remote0, Event0).props)

C8_Witness ==
  /\ ResumedToSuccess
  /\ handler = "load_balancer"
  /\ CallsWhere("create_load_balancer") # {}
  /\ Has(result.props, "arn")
  /\ uninterrupted(remote0, Event0).kind = "success"

UpdateOps == {"set_ip_address_type", "set_security_groups", "set_subnets", "update_load_balancer_special_attributes", "reset_load_balancer_special_attributes", "update_listener", "update_rule"}

TagOps == {"remove_tags", "set_tags"}

\* within one invocation, every provider call of an operation in A comes before every
\* one of an operation in B; read off the call log once the invocation has ended
Before(A, B) == \A i, j \in DOMAIN calls : (calls[i].attempt = calls[j].attempt /\ calls[i].op \in A /\ calls[j].op \in B) => i < j

\* C11 as stated: in every handler the attribute, network and security updates
\* execute before the tag-sync operations of the same invocation, and in the rule
\* handler update_rule_priority executes after them.
C11_UpdatesBeforeTags ==
  pc = "done" =>
    /\ Before(UpdateOps, TagOps)
    /\ handler = "rule" => Before(TagOps, {"update_rule_priority"})

\* C11 (amended): the order is fixed per handler as the call declarations list it:
\* listener and rule run update_listener / update_rule, then update_rule_priority,
\* then the tag-sync operations; the load balancer runs the tag-sync operations
\* first and set_ip_address_type, set_security_groups, set_subnets and the
\* special-attribute update and reset after them.
C11_DispatchOrder ==
  pc = "done" =>
    /\ handler \in {"listener", "rule"} => (Before({"update_listener", "update_rule"}, {"update_rule_priority"} \cup TagOps) /\ Before({"update_rule_priority"}, TagOps))
    /\ handler = "load_balancer" => Before(TagOps, UpdateOps)

C11_Witness ==
  /\ handler = "load_balancer"
  /\ pc = "done"
  /\ \E i, j \in DOMAIN calls : calls[i].attempt = calls[j].attempt /\ calls[i].op \in TagOps /\ calls[j].op \in UpdateOps /\ i < j

GetOps == {"get_listener", "get_load_balancer", "get_rule"}

DeleteOps == {"delete_listener", "delete_load_balancer", "delete_rule"}

CreateOps == {"create_listener", "create_load_balancer", "create_rule"}

\* an operation of the set A made a provider call in the invocation now running
Ran(A) == \E i \in DOMAIN calls : calls[i].attempt = attempt /\ calls[i].op \in A

DeleteNotFound ==
  /\ event.op = "delete"
  /\ calls # <<>>
  /\ LastCall.op \in DeleteOps
  /\ LastCall.res = "NotFound"
  /\ LastCall.attempt = attempt
  /\ pc # "invoke"

\* C13: in all three handlers a delete pass whose provider delete call reports
\* the resource not found logs the fact, leaves the delete operation out of the
\* queue, declares neither a retry nor a permanent error, and finishes in success.
C13_IdempotentDelete ==
  DeleteNotFound =>
    /\ ~eh.ret.declared
    /\ DOMAIN eh.ops \cap DeleteOps = {}
    /\ eh.logs # <<>>
    /\ eh.logs[Len(eh.logs)].title \in {"Old Listener Doesn't Exist", "Old Load Balancer Doesn't Exist", "Listener Rule Not Found"}
    /\ pc = "done" => (result.kind = "success" /\ result.progress = 100 /\ result.pass_back_data = EmptyDict)

C13_Witness ==
  /\ DeleteNotFound
  /\ handler = "rule"
  /\ pc = "done"
  /\ result.kind = "success"

\* an exception escaped an operation or the starting point and the except block of lambda_handler ran
Excepted == eh.ret.declared /\ eh.ret.kind = "failure"

\* inputs that make lambda_handler itself raise: a delete with no recorded arn
\* (prev_state["props"]["arn"]), or a rule whose conditions are not declared
RaisingInput ==
  /\ ~HasPassBack(event)
  /\ \/ event.op = "delete" /\ ~Has(PrevProps, "arn")
     \/ handler = "rule" /\ Cdef.conditions = None

\* C14: an exception no operation handles is caught at the top level of
\* lambda_handler, leaves an error log entry, and yields a failure result with
\* progress 0 and no retry request; it is never propagated to the caller.
C14_UnexpectedError ==
  /\ (RaisingInput /\ pc # "invoke") => Excepted
  /\ Excepted =>
       /\ pc \in {"finish", "done"}
       /\ eh.ret.progress = 0 /\ eh.ret.error # None
       /\ eh.logs # <<>> /\ eh.logs[Len(eh.logs)] = [title |-> "Unexpected Error", is_error |-> TRUE]
       /\ pc = "done" => (result.kind = "error" /\ result.progress = 0 /\ result.error = eh.ret.error /\ result.pass_back_data = EmptyDict /\ result.logs = eh.logs)

C14_Witness ==
  /\ Excepted
  /\ pc = "done"
  /\ calls # <<>>
  /\ result.kind = "error"

\* the invocation ended and its last provider call, made by an operation in ops, answered one of the errors in errs
EndedOn(ops, errs) == pc = "done" /\ calls # <<>> /\ LastCall.attempt = attempt /\ LastCall.op \in ops /\ LastCall.res \in errs

\* the result is the permanent error an operation declared, with its progress value
PermanentWith(progress) == eh.ret.kind = "perm" /\ result.kind = "error" /\ result.progress = progress

\* C15: a provider error that an operation has a dedicated branch for and
\* classifies as permanent ends the invocation with a permanent error carrying
\* that branch's progress (30 for update_rule_priority, 80 for
\* delete_load_balancer on operation-not-permitted, 20 for create errors, 90 for
\* set_tags errors), never with the zero-progress internal-failure result.
C15_PermanentErrorProgress ==
  /\ EndedOn({"update_rule_priority"}, {"NotFound", "PriorityInUse", "OperationNotPermitted"}) => PermanentWith(30)
  /\ EndedOn({"delete_load_balancer"}, {"OperationNotPermitted"}) => PermanentWith(80)
  /\ (EndedOn(CreateOps, {"DuplicateListener", "DuplicateLoadBalancerName", "PriorityInUse", "InvalidConfigurationRequest"}) /\ LastCall.api \in CreateOps) => PermanentWith(20)
  /\ EndedOn({"set_tags"}, {"NotFound", "TooManyTags"}) => PermanentWith(90)

\* C16: every invocation of every handler ends with exactly one of three
\* outcomes: success with progress 100, a retry request, or a permanent error;
\* and when the outcome is success the operation queue is empty.
C16_PassOutcome ==
  pc = "done" =>
    /\ result.kind \in {"success", "retry", "error"}
    /\ result.kind = "success" <=> ~eh.ret.declared
    /\ result.kind = "success" => (result.progress = 100 /\ eh.ops = EmptyDict /\ result.pass_back_data = EmptyDict /\ result.error = None)
    /\ result.kind = "retry" => (eh.ret.kind = "retry" /\ result.pass_back_data # EmptyDict /\ result.progress < 100)
    /\ result.kind = "error" => (eh.ret.kind \in {"perm", "failure", "retry"} /\ result.pass_back_data = EmptyDict /\ result.error # None)

C16_Witness ==
  /\ pc = "done"
  /\ result.kind = "success"
  /\ attempt > 1
  /\ Ran(TagOps)
  /\ Ran(UpdateOps)

\* the operation whose declaration the dispatch has reached
OpAt(p) ==
  CASE p \in {"listener_remove_tags", "load_balancer_remove_tags", "rule_remove_tags"} -> "remove_tags"
    [] p \in {"listener_set_tags", "load_balancer_set_tags", "rule_set_tags"} -> "set_tags"
    [] OTHER -> p

\* the step being taken is the dispatch passing an operation's declaration
AtDeclaration == pc \notin {"invoke", "finish", "done"}

\* C17: a provider call of an operation is issued only if the operation's name is
\* in the queue when the dispatch reaches it; an operation that is not enqueued
\* makes no provider call and changes neither State, Props, Links nor the queue.
C17_OnlyQueuedOperationsRun ==
  [][AtDeclaration =>
       /\ \A i \in DOMAIN NewCalls : NewCalls[i].op = OpAt(pc) /\ Has(eh.ops, OpAt(pc))
       /\ ~Has(eh.ops, OpAt(pc)) => (calls' = calls /\ remote' = remote /\ eh' = eh)]_vars

C17_Witness ==
  /\ handler = "listener"
  /\ pc = "create_listener"
  /\ event.op = "upsert"
  /\ Ran(GetOps)
  /\ Has(eh.state, "listener_arn")
  /\ ~Has(eh.ops, "delete_listener")
  /\ ~eh.ret.declared
  /\ remote.exists

\* the queue the invocation started from: empty, or the one a retry handed back
StartingOps == IF HasPassBack(event) THEN DOMAIN event.pass_back_data.ops ELSE {}

\* the operations this invocation added to the queue
EnqueuedNow == DOMAIN eh.ops \ StartingOps

\* a provider call of the get operation failed in this invocation with an error other than not-found
GetErrored == pc # "invoke" /\ \E i \in DOMAIN calls : calls[i].attempt = attempt /\ calls[i].op \in GetOps /\ calls[i].res = "ClientError"

\* C18: in all three handlers, when the lookup or a nested describe call of the
\* get operation fails with a provider error other than not-found, get requests
\* a retry with progress 10 and stays in the queue; no create operation is
\* enqueued, no operation the get would enqueue after the failed call is
\* enqueued, and the failed call is the last provider call of the invocation.
C18_GetTransientError ==
  GetErrored =>
    /\ eh.ret.declared /\ eh.ret.kind = "retry" /\ eh.ret.progress = 10
    /\ LastCall.op \in GetOps /\ LastCall.res = "ClientError" /\ LastCall.attempt = attempt
    /\ Has(eh.ops, LastCall.op)
    /\ DOMAIN eh.ops \cap CreateOps = {}
    /\ LastCall.api \in {"describe_listeners", "describe_load_balancers", "describe_rules"} => EnqueuedNow \subseteq GetOps
    /\ LastCall.api = "describe_load_balancer_attributes" => EnqueuedNow \cap ({"update_load_balancer_special_attributes", "reset_load_balancer_special_attributes"} \cup TagOps) = {}
    /\ LastCall.api = "describe_tags" => EnqueuedNow \cap TagOps = {}
    /\ \A i \in DOMAIN calls : calls[i].attempt = attempt => calls[i].op \in GetOps
    /\ pc = "done" => (result.kind = "retry" /\ result.progress = 10 /\ Has(result.pass_back_data.ops, LastCall.op))

C18_Witness ==
  /\ GetErrored
  /\ pc = "done"
  /\ LastCall.api = "describe_tags"
  /\ EnqueuedNow \cap UpdateOps # {}
  /\ result.kind = "retry"

RetryDeclared == eh.ret.declared /\ eh.ret.kind = "retry"

\* the step in which an operation requests a retry: the operation is the one the
\* dispatch is at, it stays in the queue and nothing already queued is lost
RetryRequestKeepsQueue ==
  (~eh.ret.declared /\ eh'.ret.declared /\ eh'.ret.kind = "retry") =>
    /\ AtDeclaration
    /\ Has(eh.ops, OpAt(pc)) /\ Has(eh'.ops, OpAt(pc))
    /\ DOMAIN eh.ops \subseteq DOMAIN eh'.ops
    /\ NewCalls # <<>> /\ NewCalls[Len(NewCalls)].op = OpAt(pc)

\* after the request no later operation of the invocation does anything
RetryStopsDispatch == (RetryDeclared /\ AtDeclaration) => (calls' = calls /\ remote' = remote /\ eh' = eh)

\* the result hands back the queue and the full State, Props and Links
RetryHandsBackLedger ==
  (RetryDeclared /\ pc = "finish") =>
    /\ result'.kind = "retry"
    /\ result'.pass_back_data.ops = eh.ops
    /\ result'.pass_back_data.state = eh.state
    /\ result'.pass_back_data.props = eh.props /\ result'.props = eh.props
    /\ result'.pass_back_data.links = eh.links /\ result'.links = eh.links

\* the next invocation starts from that ledger: no get re-added, no guard evaluated
RetryResumesFromLedger ==
  (pc = "invoke" /\ HasPassBack(event)) =>
    /\ pc' = First(handler)
    /\ eh'.ops = event.pass_back_data.ops
    /\ eh'.state = event.pass_back_data.state
    /\ eh'.props = event.pass_back_data.props
    /\ eh'.links = event.pass_back_data.links
    /\ ~eh'.ret.declared

\* C19: whenever an operation requests a retry, (a) it is still in the queue
\* returned to the caller, with every operation enqueued and not yet executed
\* and the full State, Props and Links, (b) no later operation executes in the
\* same invocation, and (c) the next invocation carrying pass_back_data starts
\* from that queue without re-adding get and without evaluating the guard.
C19_RetryHandBack == [][RetryRequestKeepsQueue /\ RetryStopsDispatch /\ RetryHandsBackLedger /\ RetryResumesFromLedger]_vars

C19_Witness ==
  /\ attempt > 1
  /\ pc = First(handler)
  /\ HasPassBack(event)
  /\ ~Has(eh.ops, First(handler))
  /\ DOMAIN eh.ops # {}
  /\ DOMAIN eh.props # {}

PermanentDeclared == eh.ret.declared /\ eh.ret.kind = "perm"

\* the step in which an operation declares a permanent error makes no provider call after the failed one
PermanentEndsOperation == (~eh.ret.declared /\ eh'.ret.declared /\ eh'.ret.kind = "perm") => Len(NewCalls) <= 1

\* once declared, the rest of the dispatch neither calls the provider nor touches the ledger
PermanentStopsDispatch == (PermanentDeclared /\ AtDeclaration) => (calls' = calls /\ remote' = remote /\ eh' = eh)

\* the result carries the error and hands nothing back for a retry, and the deployment is not re-invoked
PermanentIsReported ==
  /\ (PermanentDeclared /\ pc = "finish") => (result'.kind = "error" /\ result'.error = eh.ret.error /\ result'.progress = eh.ret.progress /\ result'.pass_back_data = EmptyDict)
  /\ (PermanentDeclared /\ pc = "done") => FALSE

\* C20: in every handler, once an operation or the immutable-field guard
\* declares a permanent error, no further provider call is made in that
\* invocation, no further operation executes, and the result carries an error
\* and no retry request.
C20_PermanentFailureTerminal == [][PermanentEndsOperation /\ PermanentStopsDispatch /\ PermanentIsReported]_vars

C20_Witness ==
  /\ PermanentDeclared
  /\ pc = "done"
  /\ result.kind = "error"
  /\ Ran(UpdateOps)
  /\ DOMAIN eh.ops \cap TagOps # {}

-----------------------------------------------------------------------------
\* the status poll was the last provider call of this invocation
PollAnswered ==
  /\ handler = "load_balancer"
  /\ calls # <<>>
  /\ LastCall.op = CheckOp
  /\ LastCall.attempt = attempt
  /\ pc # CheckOp

\* the dispatch has just passed the poll and stands at the next declaration
PollJustAnswered == PollAnswered /\ pc = Following(CheckOp)

\* C21: check_load_balancer_create_complete ends without error when the status
\* is active or active_impaired; when the status is failed it declares a
\* permanent error with progress 20 whose message carries the provider's stated
\* reason; when the load balancer is no longer found (by exception or by an
\* empty lookup result) it ends without error and without retry, leaves the
\* queue, and the dispatch goes on to the next declaration.
C21_PollTerminalStates ==
  /\ (PollJustAnswered /\ LastCall.res = "Found" /\ remote.State \in {"active", "active_impaired"}) =>
       /\ ~eh.ret.declared
       /\ ~Has(eh.ops, CheckOp)
       /\ ~eh.logs[Len(eh.logs)].is_error
  /\ (PollAnswered /\ LastCall.res = "Found" /\ remote.State = "failed") =>
       /\ eh.ret.declared /\ eh.ret.kind = "perm" /\ eh.ret.progress = 20
       /\ Truthy(remote.Reason) => eh.ret.error = "Load Balancer Creation Failed " \o remote.Reason
       /\ pc = "done" => (result.kind = "error" /\ result.progress = 20 /\ result.error = eh.ret.error)
  /\ (PollJustAnswered /\ LastCall.res \in {"NotFound", "Empty"}) =>
       /\ ~eh.ret.declared
       /\ ~Has(eh.ops, CheckOp)
       /\ ~eh.logs[Len(eh.logs)].is_error
       /\ eh.logs[Len(eh.logs)].title \in {"Load Balancer Does Not Exist", "Did not find load balancer"}

C21_Witness ==
  /\ PollAnswered
  /\ LastCall.res = "Found"
  /\ remote.State = "failed"
  /\ Truthy(remote.Reason)
  /\ pc = "done"
  /\ result.kind = "error"


-----------------------------------------------------------------------------
\* what the caller is handed when a poll saw the load balancer still provisioning
ProvisioningRetry(r) == r.kind = "retry" /\ r.callback_sec = 8 /\ Has(r.pass_back_data.ops, CheckOp)

\* the invocation whose poll saw provisioning is about to return
PollReturns == pc = "finish" /\ PollSawProvisioning

\* C22 as first stated: each poll that observes a non-terminal status
\* re-enqueues check_load_balancer_create_complete as a retry with a fixed short
\* backoff, and the progress of successive provisioning polls of one deployment
\* increases from one poll to the next.
C22_ProgressIncreases ==
  [][PollReturns =>
       /\ ProvisioningRetry(result')
       /\ ProvisioningRetry(result) => result'.progress > result.progress]_vars

\* C22: each poll that observes a non-terminal status hands back a retry request
\* with the poll still queued and a fixed backoff of 8 seconds, and every
\* provisioning poll of one deployment reports the same progress, 30.
C22_ProvisioningPoll ==
  [][PollReturns =>
       /\ ProvisioningRetry(result')
       /\ result'.progress = 30
       /\ ProvisioningRetry(result) => result'.progress = result.progress]_vars

C22_Witness ==
  /\ PollSawProvisioning
  /\ pc = "done"
  /\ attempt > 1
  /\ ProvisioningRetry(result)
  /\ \E i \in DOMAIN calls : calls[i].op = CheckOp /\ calls[i].res = "Found" /\ calls[i].attempt = attempt - 1

-----------------------------------------------------------------------------
\* the polls of this deployment that found the load balancer
PollsSoFar == Cardinality({i \in DOMAIN calls : calls[i].op = CheckOp /\ calls[i].res = "Found"})

\* the invocation has ended on a poll that saw the load balancer still provisioning
WaitEnded == PollSawProvisioning /\ pc = "done"

\* C23 as first stated: the provisioning wait is subject to the retry limit of
\* one error code, so once the polls of one deployment outnumber that limit the
\* deployment stops requesting retries and ends in a permanent failure.
C23_BoundedWait == (WaitEnded /\ PollsSoFar > MaxRetriesPerErrorCode) => result.kind = "error"

\* C23: the provisioning wait is not bounded by the retry limit: every poll
\* that sees the load balancer provisioning declares its retry under a key not
\* used before in the deployment, so the count kept for that key is 1, no count
\* reaches the limit, and the poll ends in a retry request however many polls
\* came before it.
C23_UnboundedWait ==
  WaitEnded =>
    /\ result.kind = "retry"
    /\ ~Has(event.pass_back_data, "retries") \/ ~Has(event.pass_back_data.retries, result.error)
    /\ result.pass_back_data.retries[result.error] = 1
    /\ \A k \in DOMAIN result.pass_back_data.retries : result.pass_back_data.retries[k] < MaxRetriesPerErrorCode

C23_Witness ==
  /\ WaitEnded
  /\ PollsSoFar > MaxRetriesPerErrorCode
  /\ result.kind = "retry"

-----------------------------------------------------------------------------
\* the last provider call of this invocation was one of apis and reported the resource not found
NotFoundOn(apis) ==
  /\ calls # <<>>
  /\ LastCall.api \in apis
  /\ LastCall.res = "NotFound"
  /\ LastCall.attempt = attempt
  /\ pc \notin {"invoke", LastCall.op}

UpdateApis == {"modify_listener", "modify_rule", "set_rule_priorities", "set_ip_address_type", "set_security_groups", "set_subnets", "modify_load_balancer_attributes"}

\* the operation logged, left the queue and declared no return
TreatedAsSatisfied ==
  /\ ~eh.ret.declared
  /\ ~Has(eh.ops, LastCall.op)
  /\ eh.logs # <<>>
  /\ pc = "done" => result.kind = "success"

\* C24 as first stated: in every handler an update operation whose provider
\* call reports the resource not found logs, declares neither a permanent error
\* nor a retry, and the pass continues with the remaining queued operations.
C24_NotFoundOnUpdate == NotFoundOn(UpdateApis) => TreatedAsSatisfied

\* C24: only the two special-attribute operations of the load balancer treat a
\* not-found answer of their provider call (modify_load_balancer_attributes) as
\* already satisfied: they log it, declare no return, and the pass goes on to
\* success.  A not-found answer to modify_listener or modify_rule is a permanent
\* error with progress 20, to set_ip_address_type, set_security_groups or
\* set_subnets a permanent error with progress 70, and to set_rule_priorities it
\* ends the pass in a failure as well.
C24_NotFoundOnUpdateByOperation ==
  /\ NotFoundOn({"modify_load_balancer_attributes"}) =>
       /\ TreatedAsSatisfied
       /\ \E i \in DOMAIN eh.logs : eh.logs[i].title = "Load Balancer Not Found" /\ ~eh.logs[i].is_error
  /\ NotFoundOn({"modify_listener", "modify_rule"}) =>
       /\ eh.ret.declared /\ eh.ret.kind = "perm" /\ eh.ret.progress = 20
       /\ pc = "done" => (result.kind = "error" /\ result.progress = 20)
  /\ NotFoundOn({"set_ip_address_type", "set_security_groups", "set_subnets"}) =>
       /\ eh.ret.declared /\ eh.ret.kind = "perm" /\ eh.ret.progress = 70
       /\ pc = "done" => (result.kind = "error" /\ result.progress = 70)
  /\ NotFoundOn({"set_rule_priorities"}) =>
       /\ eh.ret.declared /\ eh.ret.kind # "retry"
       /\ pc = "done" => result.kind = "error"

C24_Witness ==
  /\ NotFoundOn({"modify_load_balancer_attributes"})
  /\ LastCall.op = "update_load_balancer_special_attributes"
  /\ pc = "done"
  /\ result.kind = "success"


-----------------------------------------------------------------------------
\* the dispatch stands right after the declaration of the tag operation that made the last call
JustAfterTagOperation == pc = Following(handler \o "_" \o LastCall.op)

-----------------------------------------------------------------------------
\* the invocation ended on a delete call that the provider rejected because the resource is in use
DeleteInUse == EndedOn({"delete_load_balancer", "delete_listener"}, {"ResourceInUse"})

-----------------------------------------------------------------------------
\* the declared value of a special attribute, under the provider's key
DeclaredSpecial(key) ==
  CASE key = "deletion_protection.enabled" -> Cdef.deletion_protection_enabled
    [] key = "load_balancing.cross_zone.enabled" -> Cdef.load_balancing_cross_zone_enabled
    [] key = "access_logs.s3.bucket" -> Cdef.access_logs_s3_bucket
    [] key = "ipv6.deny_all_igw_traffic" -> Cdef.ipv6_deny_all_igw_traffic
    [] key = "idle_timeout.timeout_seconds" -> Cdef.idle_timeout_timeout_seconds

\* the string form the provider takes: booleans in lower case
StringForm(v) == Lower(ToStr(v))

\* the keys the provider exposed to the lookup of this invocation
ExposedKeys == IF eh.props.ip_address_type = "ipv4" THEN DOMAIN ProviderSpecialAttributes \ {"ipv6.deny_all_igw_traffic"} ELSE DOMAIN ProviderSpecialAttributes

\* the merged target: the declared value in string form, else the documented default, else nothing
MergedTarget ==
  remove_none_attributes([key \in ExposedKeys |-> IF DeclaredSpecial(key) # None THEN StringForm(DeclaredSpecial(key)) ELSE Get(default_special_attributes, key)])

\* get_load_balancer or create_load_balancer has just queued the update of the special attributes
SpecialUpdateQueued ==
  /\ handler = "load_balancer"
  /\ pc \in {Following("get_load_balancer"), Following("create_load_balancer")}
  /\ calls # <<>>
  /\ LastCall.attempt = attempt
  /\ LastCall.op \in {"get_load_balancer", "create_load_balancer"}
  /\ Has(eh.ops, "update_load_balancer_special_attributes")

\* C27: when the caller declares at least one special attribute, the payload of
\* update_load_balancer_special_attributes holds, for every key the provider
\* exposes (the ipv6 key left out on an ipv4 load balancer), the declared value
\* in string form if the key is declared and the documented default otherwise,
\* and no other key; this for every declared value, boolean false included.
C27_SpecialAttributeMerge ==
  /\ SpecialUpdateQueued => (eh.state.update_special_attributes = MergedTarget /\ eh.ops["update_load_balancer_special_attributes"] = MergedTarget)
  /\ \A i \in DOMAIN calls : (calls[i].op = "update_load_balancer_special_attributes" /\ i = Len(calls)) => calls[i].arg = eh.state.update_special_attributes


-----------------------------------------------------------------------------
SpecialOps == {"update_load_balancer_special_attributes", "reset_load_balancer_special_attributes"}

\* get_load_balancer or create_load_balancer of this invocation has just returned
JustLooked ==
  /\ handler = "load_balancer"
  /\ pc \in {Following("get_load_balancer"), Following("create_load_balancer")}
  /\ calls # <<>>
  /\ LastCall.attempt = attempt
  /\ LastCall.op \in {"get_load_balancer", "create_load_balancer"}

\* how the attribute lookup of this invocation was answered
AttributeLookup(res) == \E i \in DOMAIN calls : calls[i].api = "describe_load_balancer_attributes" /\ calls[i].attempt = attempt /\ calls[i].res = res

NoSpecialDeclared == \A key \in DOMAIN ProviderSpecialAttributes : DeclaredSpecial(key) = None

\* the documented defaults of the keys the lookup recorded
DefaultsOfRecorded == [key \in {x \in DOMAIN eh.state.current_special_attributes : Get(default_special_attributes, x) # None} |-> default_special_attributes[key]]

\* the special attributes the load balancer had before the deployment touched them
AttributesAtStart == IF remote0.exists THEN remote0.Attributes ELSE ProviderSpecialAttributes

\* C28: whenever the load balancer is found or created and its attributes are
\* readable, exactly one of update_load_balancer_special_attributes and
\* reset_load_balancer_special_attributes is enqueued, and never both within one
\* deployment; reset is chosen exactly when the caller declared no special
\* attribute, and its provider call sets every exposed key (the ipv6 key of an
\* ipv4 load balancer is not among them) that has a documented default to that
\* default and touches no other key.  When the attribute lookup reports
\* not-found, the invocation enqueues neither.
C28_SpecialOperationChoice ==
  /\ (JustLooked /\ AttributeLookup("Found")) =>
       /\ Cardinality(DOMAIN eh.ops \cap SpecialOps) = 1
       /\ Has(eh.ops, "reset_load_balancer_special_attributes") <=> NoSpecialDeclared
       /\ Has(eh.ops, "reset_load_balancer_special_attributes") => DOMAIN eh.state.current_special_attributes = ExposedKeys
  /\ (JustLooked /\ AttributeLookup("NotFound")) => EnqueuedNow \cap SpecialOps = {}
  /\ handler = "load_balancer" =>
       /\ Cardinality(DOMAIN eh.ops \cap SpecialOps) <= 1
       /\ Cardinality({calls[i].op : i \in DOMAIN calls} \cap SpecialOps) <= 1
  /\ (calls # <<>> /\ LastCall.op = "reset_load_balancer_special_attributes") =>
       /\ LastCall.arg = DefaultsOfRecorded
       /\ LastCall.res = "Modified" => \A key \in DOMAIN ProviderSpecialAttributes : remote.Attributes[key] = (IF key \in DOMAIN LastCall.arg THEN default_special_attributes[key] ELSE AttributesAtStart[key])

C28_Witness ==
  /\ handler = "load_balancer"
  /\ pc = "done"
  /\ calls # <<>>
  /\ LastCall.op = "reset_load_balancer_special_attributes"
  /\ LastCall.res = "Modified"
  /\ remote0.exists
  /\ remote0.Attributes # remote.Attributes
  /\ AttributeLookup("Found")



\* the lookup by name of this invocation found the load balancer and get_load_balancer has returned without an error
LookupFoundLoadBalancer ==
  /\ handler = "load_balancer"
  /\ event.op = "upsert"
  /\ pc = Following("get_load_balancer")
  /\ \E i \in DOMAIN calls : calls[i].api = "describe_load_balancers" /\ calls[i].attempt = attempt /\ calls[i].res = "Found"
  /\ ~eh.ret.declared

\* C29: when get_load_balancer finds the load balancer, each of security groups,
\* subnets and IP address type whose declared value differs from the value the
\* live load balancer reports has its operation (set_security_groups, set_subnets,
\* set_ip_address_type) queued, whatever prev_state.props records, an empty
\* prev_state included.
C29_DriftAgainstLive ==
  LookupFoundLoadBalancer =>
    /\ (Cdef.security_groups # None /\ Cdef.security_groups # remote0.SecurityGroups) => Has(eh.ops, "set_security_groups")
    /\ Cdef.subnets # remote0.Subnets => Has(eh.ops, "set_subnets")
    /\ Or(Cdef.ip_address_type, "ipv4") # remote0.IpAddressType => Has(eh.ops, "set_ip_address_type")


\* the lookup by ARN of this invocation found the rule and get_rule has returned
RuleLookupFound ==
  /\ handler = "rule"
  /\ event.op = "upsert"
  /\ pc = Following("get_rule")
  /\ \E i \in DOMAIN calls : calls[i].api = "describe_rules" /\ calls[i].attempt = attempt /\ calls[i].res = "Found"

\* the declared conditions in the provider's format against the live conditions
\* taken to the declared format and back
ConditionsDiffer == conditions_to_formatted_conditions(Cdef.conditions) # conditions_to_formatted_conditions(formatted_conditions_to_conditions(remote0.Conditions))

ActionsDiffer == Or(Cdef.action_type, "forward") # remote0.Type \/ Cdef.target_group_arn # remote0.TargetGroupArn

\* the provider's answer carries no listener ARN: the live side is the one prev_state recorded
ListenerArnDiffers == Cdef.listener_arn # Get(PrevProps, "listener_arn")

PriorityDiffers == ToInt(Cdef.priority) # ToInt(remote0.Priority)

\* a deployment whose lookup found a rule that differs from the declaration in its priority only
PriorityAloneDiffers ==
  /\ handler = "rule"
  /\ event.op = "upsert"
  /\ \E i \in DOMAIN calls : calls[i].api = "describe_rules" /\ calls[i].res = "Found"
  /\ PriorityDiffers
  /\ ~(ConditionsDiffer \/ ActionsDiffer \/ ListenerArnDiffers)

\* C30: when get_rule finds the rule it queues update_rule exactly when the
\* conditions, the action or the listener ARN differ between the normalized
\* declaration and the attributes rebuilt from the live rule, and
\* update_rule_priority exactly when the declared priority differs from the live
\* one; when the priority alone differs, update_rule is not queued and modify_rule
\* is never called.
C30_RulePriorityDiffedSeparately ==
  /\ RuleLookupFound =>
       /\ Has(eh.ops, "update_rule") <=> (ConditionsDiffer \/ ActionsDiffer \/ ListenerArnDiffers)
       /\ Has(eh.ops, "update_rule_priority") <=> PriorityDiffers
  /\ PriorityAloneDiffers =>
       /\ ~Has(eh.ops, "update_rule")
       /\ \A i \in DOMAIN calls : calls[i].api # "modify_rule"

\* the priority alone differed, and the deployment ended having moved the rule to the declared priority
C30_Witness ==
  /\ PriorityAloneDiffers
  /\ pc = "done"
  /\ result.kind = "success"
  /\ \E i \in DOMAIN calls : calls[i].api = "set_rule_priorities" /\ calls[i].res = "Set"
  /\ remote.Priority = ToStr(ToInt(Cdef.priority))
  /\ remote.Priority # remote0.Priority


\* an upsert that declares no priority, whose lookup found the rule
NoPriorityDeclared ==
  /\ handler = "rule"
  /\ event.op = "upsert"
  /\ Cdef.priority = None
  /\ \E i \in DOMAIN calls : calls[i].api = "describe_rules" /\ calls[i].res = "Found"

\* C31: when the declaration carries no priority and get_rule finds the rule,
\* update_rule_priority is not queued and set_rule_priorities is never called,
\* whatever priority the live rule has.
C31_AbsentPriorityNoOpinion ==
  NoPriorityDeclared =>
    /\ ~Has(eh.ops, "update_rule_priority")
    /\ \A i \in DOMAIN calls : calls[i].api # "set_rule_priorities"


CreateApis == {"create_listener", "create_load_balancer", "create_rule"}

\* the deployment has ended or been handed back, and the provider has created the resource for it
CreateSucceeded == pc = "done" /\ \E i \in DOMAIN calls : calls[i].api \in CreateApis /\ calls[i].res = "Created"

\* C32: in every handler, across the first invocation and all its retries, no
\* create call is issued after the provider's create call has succeeded, also
\* when the lookup of tags or special attributes inside the create operation
\* fails with a transient error after the create.
C32_CreateAtMostOnce ==
  CreateSucceeded =>
    \A j \in DOMAIN calls : calls[j].api \in CreateApis => \A i \in 1..(j - 1) : ~(calls[i].api \in CreateApis /\ calls[i].res = "Created")


\* get_load_balancer ran in this invocation and returned without asking for a retry or declaring an error
LoadBalancerLookupCompleted ==
  /\ handler = "load_balancer"
  /\ pc = Following("get_load_balancer")
  /\ \E i \in DOMAIN calls : calls[i].api = "describe_load_balancers" /\ calls[i].attempt = attempt
  /\ ~eh.ret.declared

\* C33: whenever get_load_balancer completes without a retry request or a
\* permanent error, either the load balancer was found (State holds
\* load_balancer_arn and Props holds arn) or create_load_balancer is queued, an
\* empty lookup result included; so every upsert of the load balancer handler that
\* ends in success has an ARN under Props.arn.
C33_GetResolvesExistence ==
  /\ LoadBalancerLookupCompleted =>
       \/ Has(eh.state, "load_balancer_arn") /\ Has(eh.props, "arn")
       \/ Has(eh.ops, "create_load_balancer")
  /\ (handler = "load_balancer" /\ event.op = "upsert" /\ pc = "done" /\ result.kind = "success") =>
       Has(result.props, "arn") /\ result.props.arn # None


\* an upsert of the rule handler has ended in success and the rule is there
RuleUpsertSucceeded ==
  /\ handler = "rule"
  /\ event.op = "upsert"
  /\ pc = "done"
  /\ result.kind = "success"
  /\ remote.exists

\* C34: after every successful upsert of the rule handler, Props.listener_arn is
\* the ARN of the listener the live rule belongs to, the one it was created under.
C34_PropsListenerIsLive ==
  RuleUpsertSucceeded => (Has(result.props, "listener_arn") /\ result.props.listener_arn = remote.ListenerArn)


\* C35: once update_rule_priority has succeeded, the value under Props key
\* "priority" is the priority just set on the live rule: no successful pass ends
\* with Props.priority different from the live rule's priority.
C35_PropsPriorityIsLive ==
  (RuleUpsertSucceeded /\ \E i \in DOMAIN calls : calls[i].api = "set_rule_priorities" /\ calls[i].res = "Set") =>
    (Has(result.props, "priority") /\ ToInt(result.props.priority) = ToInt(remote.Priority))


DeleteApis == {"delete_listener", "delete_load_balancer", "delete_rule"}

\* the first invocation of a delete has returned
FirstDeleteReturned == event.op = "delete" /\ ~HasPassBack(event) /\ pc = "done"

\* C36: in every handler, a delete invocation without pass_back_data whose
\* prev_state is empty or records no props.arn finishes in success without any
\* provider call; one with a recorded arn issues exactly one provider call, the
\* delete, and no lookup, create, update or tag call.
C36_DeleteOfNeverCreated ==
  /\ (FirstDeleteReturned /\ ~Has(PrevProps, "arn")) => (result.kind = "success" /\ calls = <<>>)
  /\ (FirstDeleteReturned /\ Has(PrevProps, "arn")) => (Len(calls) = 1 /\ calls[1].api \in DeleteApis)


Supported(item) == item.field \in ConditionFields

\* the declared conditions of the fields the translation knows
DeclaredSupported == SelectSeq(Cdef.conditions, Supported)

\* a query-string list with every value as the string the f-string makes of it
StringValues(values) == [i \in DOMAIN values |-> [k \in DOMAIN values[i] |-> ToStr(values[i][k])]]

AsStrings(conditions) == [i \in DOMAIN conditions |-> IF conditions[i].field = "query-string" THEN [conditions[i] EXCEPT !.values = StringValues(@)] ELSE conditions[i]]

\* a declared condition the provider's format can carry back: one key per
\* query-string dict, and the header name of an http-header condition present
Recoverable(item) ==
  /\ item.field = "query-string" => \A i \in DOMAIN item.values : Cardinality(DOMAIN item.values[i]) = 1
  /\ item.field = "http-header" => Has(item, "http_header_name")

\* lambda_handler of a rule upsert has translated the declared conditions
RuleUpsert == handler = "rule" /\ event.op = "upsert" /\ pc # "invoke"

\* what lambda_handler sends and what the translation back makes of it
DeclaredFormatted == conditions_to_formatted_conditions(Cdef.conditions)

DeclaredAndBack == formatted_conditions_to_conditions(DeclaredFormatted)

\* this deployment created the rule and recorded its conditions in Props
RuleCreatedAndRecorded ==
  /\ RuleUpsert
  /\ \E i \in DOMAIN calls : calls[i].api = "create_rule" /\ calls[i].res = "Created"
  /\ Has(eh.props, "conditions")

\* the lookup found a rule that differs from the declaration at most in its conditions
FoundSameButConditions == RuleLookupFound /\ ~ActionsDiffer /\ ~ListenerArnDiffers

=============================================================================
